---- MODULE Spec2Model ----
(***************************************************************************)
(* Model of the queue and message operation layer of sqs-gui:              *)
(* SqsServiceImpl (internal/sqs_service.go) over SqsRepositoryImpl         *)
(* (internal/sqs_repository.go) over a double of the provider client.      *)
(* The calls the repository and the provider receive are recorded.  The    *)
(* HTTP handlers (internal/handler.go) are modelled over a double of the   *)
(* service.                                                                *)
(*                                                                         *)
(* Go strings that the code inspects (trimming, suffix tests, decimal      *)
(* formatting) are sequences of one-character strings.  Strings the code   *)
(* only compares for equality (queue type, error messages, attribute keys  *)
(* fixed by the code) are TLA+ strings.                                    *)
(***************************************************************************)
EXTENDS Integers, Sequences, FiniteSets, TLC

(***************************************************************************)
(* Bounds of the model.                                                    *)
(***************************************************************************)
\* longest input string, counted in pieces of NamePieces / TextPieces
MaxPieces == 3
\* longest attribute list of a SendMessageInput
MaxAttrs == 2
\* most queue URLs and page ends the provider double delivers in one listing
MaxListing == 3
\* most pages the provider double delivers to one listing of a concurrent caller
MaxConcPages == 2

(***************************************************************************)
(* Go string helpers.                                                      *)
(***************************************************************************)
\* unicode.IsSpace, restricted to the characters the model's inputs use
WhiteSpace == {" ", "\t", "\n"}

RECURSIVE TrimLeft(_)
TrimLeft(s) ==
    IF s # <<>> /\ Head(s) \in WhiteSpace THEN TrimLeft(Tail(s)) ELSE s

RECURSIVE TrimRight(_)
TrimRight(s) ==
    IF s # <<>> /\ s[Len(s)] \in WhiteSpace
    THEN TrimRight(SubSeq(s, 1, Len(s) - 1))
    ELSE s

\* strings.TrimSpace
TrimSpace(s) == TrimRight(TrimLeft(s))

\* strings.HasSuffix
HasSuffix(s, suffix) ==
    /\ Len(s) >= Len(suffix)
    /\ SubSeq(s, Len(s) - Len(suffix) + 1, Len(s)) = suffix

DigitChars == <<"0", "1", "2", "3", "4", "5", "6", "7", "8", "9">>

RECURSIVE FormatNat(_)
FormatNat(n) ==
    IF n < 10 THEN <<DigitChars[n + 1]>>
    ELSE FormatNat(n \div 10) \o <<DigitChars[(n % 10) + 1]>>

\* strconv.FormatInt(int64(v), 10)
FormatInt(v) ==
    IF v < 0 THEN <<"-">> \o FormatNat(0 - v) ELSE FormatNat(v)

\* the literal ".fifo"
DotFifo == <<".", "f", "i", "f", "o">>

(***************************************************************************)
(* Types of internal/types.go.                                             *)
(***************************************************************************)
QueueTypeStandard == "standard"
QueueTypeFIFO == "fifo"

\* map[string]string{}
EmptyMap == [k \in {} |-> <<>>]

\* *int32: nil, or a pointer to v
NilInt == [isNil |-> TRUE, v |-> 0]
Int32Ptr(v) == [isNil |-> FALSE, v |-> v]


(***************************************************************************)
(* Inputs the callers may supply.                                          *)
(***************************************************************************)
RECURSIVE Concats(_, _)
\* every concatenation of at most n pieces
Concats(pieces, n) ==
    IF n = 0 THEN {<<>>}
    ELSE LET shorter == Concats(pieces, n - 1)
         IN shorter \cup {s \o p : s \in shorter, p \in pieces}

NamePieces == {<<" ">>, <<"a">>, DotFifo, <<"f", "i", "f", "o">>}
QueueNames == Concats(NamePieces, MaxPieces)
\* QueueType is a string type: any value can be passed
QueueTypes == {"", QueueTypeStandard, QueueTypeFIFO, "dead-letter"}
DelayInputs == {NilInt} \cup {Int32Ptr(v) : v \in {0 - 1, 0, 10, 900, 901}}
RetentionInputs == {NilInt, Int32Ptr(3600)}
VisibilityInputs == {NilInt, Int32Ptr(45)}

CreateQueueInputs ==
    [Name : QueueNames, Type : QueueTypes, DelaySeconds : DelayInputs,
     MessageRetentionPeriod : RetentionInputs,
     VisibilityTimeout : VisibilityInputs,
     ContentBasedDeduplication : BOOLEAN]

\* an error is its message; nil is ""
NoError == ""

(***************************************************************************)
(* SqsServiceImpl.CreateQueue                                              *)
(***************************************************************************)
\* queueType := input.Type; if queueType == "" { queueType = standard }
DefaultQueueType(input) ==
    IF input.Type = "" THEN QueueTypeStandard ELSE input.Type

\* faulty variant: the suffix is appended to every FIFO name
CreateQueueNameAlwaysAppend(input) ==
    IF DefaultQueueType(input) = QueueTypeFIFO
    THEN TrimSpace(input.Name) \o DotFifo
    ELSE TrimSpace(input.Name)

\* faulty variant: the suffix is never appended
CreateQueueNameNoAppend(input) == TrimSpace(input.Name)

\* the name after trimming and after the FIFO suffix has been appended
CreateQueueName(input) ==
    LET name == TrimSpace(input.Name)
    IN  IF DefaultQueueType(input) = QueueTypeFIFO /\ ~HasSuffix(name, DotFifo)
        THEN name \o DotFifo
        ELSE name

\* faulty variant: a .fifo name does not change the type
CreateQueueTypeNoReclassify(input) == DefaultQueueType(input)

\* the queue type after a standard queue with a .fifo name is reclassified
CreateQueueType(input) ==
    IF /\ DefaultQueueType(input) = QueueTypeStandard
       /\ HasSuffix(CreateQueueName(input), DotFifo)
    THEN QueueTypeFIFO
    ELSE DefaultQueueType(input)

\* faulty variant: the entry is written even for a nil pointer
OptionalAttributeAlways(key, ptr) == key :> FormatInt(ptr.v)

\* one optional numeric attribute: absent for nil, else the decimal string
OptionalAttribute(key, ptr) ==
    IF ptr.isNil THEN EmptyMap ELSE key :> FormatInt(ptr.v)

\* attributes := map[string]string{} and the three optional entries
CreateQueueOptionalAttributes(input) ==
    OptionalAttribute("VisibilityTimeout", input.VisibilityTimeout)
    @@ OptionalAttribute("MessageRetentionPeriod", input.MessageRetentionPeriod)
    @@ OptionalAttribute("DelaySeconds", input.DelaySeconds)

\* case QueueTypeFIFO of the switch
CreateQueueFifoAttributes(input) ==
    IF input.ContentBasedDeduplication
    THEN ("ContentBasedDeduplication" :> <<"t", "r", "u", "e">>)
         @@ ("FifoQueue" :> <<"t", "r", "u", "e">>)
    ELSE "FifoQueue" :> <<"t", "r", "u", "e">>

\* the attribute map handed to the repository
CreateQueueAttributes(input) ==
    IF CreateQueueType(input) = QueueTypeFIFO
    THEN CreateQueueFifoAttributes(input) @@ CreateQueueOptionalAttributes(input)
    ELSE CreateQueueOptionalAttributes(input)

\* faulty variant: deduplication on a standard queue is let through
CreateQueueValidationNoDedup(input) ==
    IF TrimSpace(input.Name) = <<>> THEN "queue name is required"
    ELSE IF CreateQueueType(input) \notin {QueueTypeStandard, QueueTypeFIFO}
    THEN "invalid queue type"
    ELSE NoError

\* variant: CreateQueue checks the range of delaySeconds as SendMessage does
CreateQueueValidationWithDelay(input) ==
    IF TrimSpace(input.Name) = <<>> THEN "queue name is required"
    ELSE IF CreateQueueType(input) \notin {QueueTypeStandard, QueueTypeFIFO}
    THEN "invalid queue type"
    ELSE IF /\ ~input.DelaySeconds.isNil
            /\ (input.DelaySeconds.v < 0 \/ input.DelaySeconds.v > 900)
    THEN "delay seconds must be between 0 and 900"
    ELSE IF /\ CreateQueueType(input) = QueueTypeStandard
            /\ input.ContentBasedDeduplication
    THEN "content-based deduplication is only available for FIFO queues"
    ELSE NoError

\* the early returns of CreateQueue, in the order of the code ("" = none)
CreateQueueValidation(input) ==
    IF TrimSpace(input.Name) = <<>> THEN "queue name is required"
    ELSE IF CreateQueueType(input) \notin {QueueTypeStandard, QueueTypeFIFO}
    THEN "invalid queue type"
    ELSE IF /\ CreateQueueType(input) = QueueTypeStandard
            /\ input.ContentBasedDeduplication
    THEN "content-based deduplication is only available for FIFO queues"
    ELSE NoError

\* the whole method: the calls the repository saw and what the caller gets
CreateQueueRun(input, reply) ==
    IF CreateQueueValidation(input) # NoError
    THEN [calls |-> <<>>,
          result |-> [err |-> CreateQueueValidation(input), QueueURL |-> <<>>]]
    ELSE [calls |-> <<[method |-> "CreateQueue",
                       input |-> [Name |-> CreateQueueName(input),
                                  Attributes |-> CreateQueueAttributes(input)]]>>,
          result |-> IF reply.err # NoError
                     THEN [err |-> reply.err, QueueURL |-> <<>>]
                     ELSE [err |-> NoError, QueueURL |-> reply.url]]


(***************************************************************************)
(* SqsServiceImpl.QueueDetail, DeleteQueue, PurgeQueue                     *)
(***************************************************************************)
QueueURLs == {<<>>, <<" ">>, <<"u">>, <<" ", "u", " ">>}

\* if strings.TrimSpace(queueURL) == "" { return errors.New(...) }
QueueURLValidation(queueURL) ==
    IF TrimSpace(queueURL) = <<>> THEN "queue url is required" ELSE NoError

\* faulty variant: the trimmed queue URL is passed on
QueueURLRunTrimmed(method, queueURL, reply) ==
    IF QueueURLValidation(queueURL) # NoError
    THEN [calls |-> <<>>, result |-> [err |-> QueueURLValidation(queueURL)]]
    ELSE [calls |-> <<[method |-> method, input |-> [QueueURL |-> TrimSpace(queueURL)]]>>,
          result |-> [err |-> reply.err]]

\* QueueDetail, DeleteQueue and PurgeQueue: validate, then pass queueURL on
QueueURLRun(method, queueURL, reply) ==
    IF QueueURLValidation(queueURL) # NoError
    THEN [calls |-> <<>>, result |-> [err |-> QueueURLValidation(queueURL)]]
    ELSE [calls |-> <<[method |-> method, input |-> [QueueURL |-> queueURL]]>>,
          result |-> [err |-> reply.err]]

QueueDetailRun(queueURL, reply) ==
    IF QueueURLValidation(queueURL) # NoError
    THEN [calls |-> <<>>,
          result |-> [err |-> QueueURLValidation(queueURL), detail |-> reply.zero]]
    ELSE [calls |-> <<[method |-> "GetQueueDetail", input |-> [QueueURL |-> queueURL]]>>,
          result |-> [err |-> reply.err, detail |-> reply.detail]]

DeleteQueueRun(queueURL, reply) == QueueURLRun("DeleteQueue", queueURL, reply)

PurgeQueueRun(queueURL, reply) == QueueURLRun("PurgeQueue", queueURL, reply)

(***************************************************************************)
(* SqsServiceImpl.SendMessage                                              *)
(***************************************************************************)
Bodies == {<<" ">>, <<"h", "i">>, <<" ", "h", "i", " ">>}
GroupIDs == {<<>>, <<" ", "g", " ">>}
DeduplicationIDs == {<<>>, <<" ", "d", " ">>}
AttributeNames == {<<" ">>, <<"k">>, <<" ", "k">>, <<"m">>}
AttributeValues == {<<"1">>, <<"2">>}
MessageAttributes == [Name : AttributeNames, Value : AttributeValues]

RECURSIVE Lists(_, _)
\* every list of at most n elements
Lists(elements, n) ==
    IF n = 0 THEN {<<>>}
    ELSE LET shorter == Lists(elements, n - 1)
         IN shorter \cup {Append(l, e) : l \in shorter, e \in elements}

SendMessageInputs ==
    [QueueURL : QueueURLs, Body : Bodies, MessageGroupID : GroupIDs,
     MessageDeduplicationID : DeduplicationIDs, DelaySeconds : DelayInputs,
     Attributes : Lists(MessageAttributes, MaxAttrs)]

\* faulty variant: the upper bound itself is rejected
SendMessageDelayInvalidStrict(input) ==
    /\ ~input.DelaySeconds.isNil
    /\ (input.DelaySeconds.v < 0 \/ input.DelaySeconds.v >= 900)

\* if *input.DelaySeconds < 0 || *input.DelaySeconds > 900
SendMessageDelayInvalid(input) ==
    /\ ~input.DelaySeconds.isNil
    /\ (input.DelaySeconds.v < 0 \/ input.DelaySeconds.v > 900)

\* the early returns of SendMessage, in the order of the code
SendMessageValidation(input) ==
    IF TrimSpace(input.QueueURL) = <<>> THEN "queue url is required"
    ELSE IF TrimSpace(input.Body) = <<>> THEN "message body is required"
    ELSE IF SendMessageDelayInvalid(input)
    THEN "delay seconds must be between 0 and 900"
    ELSE NoError

\* var delay *int32; set from input.DelaySeconds when it is provided
SendMessageDelay(input) ==
    IF input.DelaySeconds.isNil THEN NilInt ELSE Int32Ptr(input.DelaySeconds.v)

RECURSIVE SendMessageAttributesFirstWins(_)
\* faulty variant: an earlier entry keeps its value against later ones
SendMessageAttributesFirstWins(attrs) ==
    IF attrs = <<>> THEN EmptyMap
    ELSE LET attr == attrs[Len(attrs)]
             name == TrimSpace(attr.Name)
             before == SendMessageAttributesFirstWins(SubSeq(attrs, 1, Len(attrs) - 1))
         IN  IF name = <<>> THEN before ELSE before @@ (name :> attr.Value)

RECURSIVE SendMessageAttributes(_)
\* the loop over input.Attributes: later entries overwrite earlier ones
SendMessageAttributes(attrs) ==
    IF attrs = <<>> THEN EmptyMap
    ELSE LET attr == attrs[Len(attrs)]
             name == TrimSpace(attr.Name)
             before == SendMessageAttributes(SubSeq(attrs, 1, Len(attrs) - 1))
         IN  IF name = <<>> THEN before ELSE (name :> attr.Value) @@ before

\* the whole method
SendMessageRun(input, reply) ==
    IF SendMessageValidation(input) # NoError
    THEN [calls |-> <<>>, result |-> [err |-> SendMessageValidation(input)]]
    ELSE [calls |-> <<[method |-> "SendMessage",
                       input |-> [QueueURL |-> TrimSpace(input.QueueURL),
                                  Body |-> input.Body,
                                  MessageGroupID |-> TrimSpace(input.MessageGroupID),
                                  MessageDeduplicationID |-> <<>>,
                                  DelaySeconds |-> SendMessageDelay(input),
                                  Attributes |-> SendMessageAttributes(input.Attributes)]]>>,
          result |-> [err |-> reply.err]]


(***************************************************************************)
(* SqsServiceImpl.ReceiveMessages                                          *)
(***************************************************************************)
defaultMaxMessages == 10
minMaxMessages == 1
maxMaxMessages == 10
defaultWaitTimeSeconds == 20
minWaitTimeSeconds == 0
maxWaitTimeSeconds == 20

MaxMessagesInputs == {0 - 3, 0, 1, 5, 10, 11, 25}
WaitTimeInputs == {0 - 5, 0, 1, 7, 20, 21, 40}
ReceiveMessagesInputs ==
    [QueueURL : QueueURLs, MaxMessages : MaxMessagesInputs,
     WaitTimeSeconds : WaitTimeInputs, MaxMessagesProvided : BOOLEAN,
     WaitTimeProvided : BOOLEAN]

\* faulty variant: a zero maxMessages counts as not provided
ReceiveMaxMessagesZeroDefault(input) ==
    IF input.MaxMessages = 0 THEN defaultMaxMessages
    ELSE IF input.MaxMessages < minMaxMessages THEN minMaxMessages
    ELSE IF input.MaxMessages > maxMaxMessages THEN maxMaxMessages
    ELSE input.MaxMessages

\* maxMessages after the default and the clamp
ReceiveMaxMessages(input) ==
    IF ~input.MaxMessagesProvided THEN defaultMaxMessages
    ELSE IF input.MaxMessages < minMaxMessages THEN minMaxMessages
    ELSE IF input.MaxMessages > maxMaxMessages THEN maxMaxMessages
    ELSE input.MaxMessages

\* faulty variant: a zero wait time counts as not provided
ReceiveWaitTimeZeroDefault(input) ==
    IF input.WaitTimeSeconds = 0 THEN defaultWaitTimeSeconds
    ELSE IF input.WaitTimeSeconds < minWaitTimeSeconds THEN minWaitTimeSeconds
    ELSE IF input.WaitTimeSeconds > maxWaitTimeSeconds THEN maxWaitTimeSeconds
    ELSE input.WaitTimeSeconds

\* waitTime after the default and the clamp
ReceiveWaitTime(input) ==
    IF ~input.WaitTimeProvided THEN defaultWaitTimeSeconds
    ELSE IF input.WaitTimeSeconds < minWaitTimeSeconds THEN minWaitTimeSeconds
    ELSE IF input.WaitTimeSeconds > maxWaitTimeSeconds THEN maxWaitTimeSeconds
    ELSE input.WaitTimeSeconds

\* the whole method
ReceiveMessagesRun(input, reply) ==
    IF QueueURLValidation(input.QueueURL) # NoError
    THEN [calls |-> <<>>,
          result |-> [err |-> QueueURLValidation(input.QueueURL),
                      Messages |-> <<>>]]
    ELSE [calls |-> <<[method |-> "ReceiveMessages",
                       input |-> [QueueURL |-> TrimSpace(input.QueueURL),
                                  MaxMessages |-> ReceiveMaxMessages(input),
                                  WaitTimeSeconds |-> ReceiveWaitTime(input)]]>>,
          result |-> IF reply.err # NoError
                     THEN [err |-> reply.err, Messages |-> <<>>]
                     ELSE [err |-> NoError, Messages |-> reply.messages]]

(***************************************************************************)
(* SqsServiceImpl.DeleteMessage                                            *)
(***************************************************************************)
ReceiptHandles == {<<>>, <<" ", " ">>, <<"r">>, <<" ", "r", " ">>}
DeleteMessageInputs == [QueueURL : QueueURLs, ReceiptHandle : ReceiptHandles]

\* the early returns of DeleteMessage, in the order of the code
DeleteMessageValidation(input) ==
    IF TrimSpace(input.QueueURL) = <<>> THEN "queue url is required"
    ELSE IF TrimSpace(input.ReceiptHandle) = <<>>
    THEN "receipt handle is required"
    ELSE NoError

\* faulty variant: the receipt handle is checked after the repository call
DeleteMessageRunLateCheck(input, reply) ==
    IF TrimSpace(input.QueueURL) = <<>>
    THEN [calls |-> <<>>, result |-> [err |-> "queue url is required"]]
    ELSE [calls |-> <<[method |-> "DeleteMessage",
                       input |-> [QueueURL |-> TrimSpace(input.QueueURL),
                                  ReceiptHandle |-> TrimSpace(input.ReceiptHandle)]]>>,
          result |-> [err |-> DeleteMessageValidation(input)]]

\* the whole method
DeleteMessageRun(input, reply) ==
    IF DeleteMessageValidation(input) # NoError
    THEN [calls |-> <<>>, result |-> [err |-> DeleteMessageValidation(input)]]
    ELSE [calls |-> <<[method |-> "DeleteMessage",
                       input |-> [QueueURL |-> TrimSpace(input.QueueURL),
                                  ReceiptHandle |-> TrimSpace(input.ReceiptHandle)]]>>,
          result |-> [err |-> reply.err]]

(***************************************************************************)
(* SqsServiceImpl.Queues                                                   *)
(***************************************************************************)
QueuesRun(reply) ==
    [calls |-> <<[method |-> "ListQueues", input |-> [none |-> TRUE]]>>,
     result |-> [err |-> reply.err, queues |-> reply.queues]]

(***************************************************************************)
(* SqsRepositoryImpl (internal/sqs_repository.go) over a double of the     *)
(* provider client (sqsAPI).  The double answers each call with an error   *)
(* (nil is "") and a payload, and honours the caller's context: a call     *)
(* made after the context was cancelled fails with "context canceled".     *)
(* Every operator returns the provider calls it made, each with the error  *)
(* it was answered with, and the reply to the caller of the repository.    *)
(***************************************************************************)
ContextCanceled == "context canceled"
ProviderErrors == {"boom", ContextCanceled}
ProviderOutcomes == {NoError} \cup ProviderErrors

\* faulty variant: the underlying error is replaced by the message
WrapMessageOnly(err, msg) == msg

\* errors.Wrap(err, msg), as its Error() text
Wrap(err, msg) == msg \o ": " \o err

\* *string: nil, or a pointer to s
NilString == [isNil |-> TRUE, v |-> <<>>]
StringPtr(s) == [isNil |-> FALSE, v |-> s]

\* one recorded provider call
ProviderCall(api, request, answer) ==
    [api |-> api, input |-> request, err |-> answer.err, output |-> answer]

\* SqsRepositoryImpl.CreateQueue
RepositoryCreateQueue(in, answer) ==
    [calls |-> <<ProviderCall("CreateQueue",
                              [QueueName |-> in.Name, Attributes |-> in.Attributes],
                              answer)>>,
     reply |-> IF answer.err # NoError
               THEN [url |-> <<>>,
                     err |-> Wrap(answer.err, "failed to call CreateQueue API")]
               ELSE IF answer.QueueUrl.isNil
               THEN [url |-> <<>>,
                     err |-> "CreateQueue API response does not contain QueueUrl"]
               ELSE [url |-> answer.QueueUrl.v, err |-> NoError]]

\* faulty variant: a failed call is issued once more
RepositoryDeleteQueueRetry(in, answer) ==
    [calls |-> IF answer.err # NoError
               THEN <<ProviderCall("DeleteQueue", [QueueUrl |-> in.QueueURL], answer),
                      ProviderCall("DeleteQueue", [QueueUrl |-> in.QueueURL], answer)>>
               ELSE <<ProviderCall("DeleteQueue", [QueueUrl |-> in.QueueURL], answer)>>,
     reply |-> [err |-> IF answer.err # NoError
                        THEN Wrap(answer.err, "failed to call DeleteQueue API")
                        ELSE NoError]]

\* SqsRepositoryImpl.DeleteQueue
RepositoryDeleteQueue(in, answer) ==
    [calls |-> <<ProviderCall("DeleteQueue", [QueueUrl |-> in.QueueURL], answer)>>,
     reply |-> [err |-> IF answer.err # NoError
                        THEN Wrap(answer.err, "failed to call DeleteQueue API")
                        ELSE NoError]]

\* SqsRepositoryImpl.PurgeQueue
RepositoryPurgeQueue(in, answer) ==
    [calls |-> <<ProviderCall("PurgeQueue", [QueueUrl |-> in.QueueURL], answer)>>,
     reply |-> [err |-> IF answer.err # NoError
                        THEN Wrap(answer.err, "failed to call PurgeQueue API")
                        ELSE NoError]]

\* a trimmed optional string of the request: nil when blank
TrimmedOrNil(s) ==
    IF TrimSpace(s) = <<>> THEN NilString ELSE StringPtr(TrimSpace(s))

\* req.MessageAttributes: every entry with a non-blank key, typed String
SendMessageRequestAttributes(attributes) ==
    [k \in {key \in DOMAIN attributes : TrimSpace(key) # <<>>} |->
        [DataType |-> "String", StringValue |-> attributes[k]]]

\* the sqs.SendMessageInput built by SqsRepositoryImpl.SendMessage
SendMessageRequest(in) ==
    [QueueUrl |-> in.QueueURL,
     MessageBody |-> in.Body,
     DelaySeconds |-> IF in.DelaySeconds.isNil THEN 0 ELSE in.DelaySeconds.v,
     MessageGroupId |-> TrimmedOrNil(in.MessageGroupID),
     MessageDeduplicationId |-> TrimmedOrNil(in.MessageDeduplicationID),
     MessageAttributes |-> SendMessageRequestAttributes(in.Attributes)]

\* SqsRepositoryImpl.SendMessage
RepositorySendMessage(in, answer) ==
    [calls |-> <<ProviderCall("SendMessage", SendMessageRequest(in), answer)>>,
     reply |-> [err |-> IF answer.err # NoError
                        THEN Wrap(answer.err, "failed to call SendMessage API")
                        ELSE NoError]]

\* SqsRepositoryImpl.DeleteMessage
RepositoryDeleteMessage(in, answer) ==
    [calls |-> <<ProviderCall("DeleteMessage",
                              [QueueUrl |-> in.QueueURL,
                               ReceiptHandle |-> in.ReceiptHandle],
                              answer)>>,
     reply |-> [err |-> IF answer.err # NoError
                        THEN Wrap(answer.err, "failed to call DeleteMessage API")
                        ELSE NoError]]

(***************************************************************************)
(* Helpers of the normalisation code.                                      *)
(***************************************************************************)
RECURSIVE ParseDigits(_, _)
\* the digits of s read from the left, acc holding the value read so far
ParseDigits(s, acc) ==
    IF s = <<>> THEN acc
    ELSE ParseDigits(Tail(s),
                     10 * acc + (CHOOSE d \in 0..9 : DigitChars[d + 1] = Head(s)))

\* strconv.ParseInt(s, 10, bitSize) for strings of at most nine digits, which
\* fit both bit sizes the code uses: ok is FALSE where Go returns an error
ParseInt(s) ==
    LET signed == s # <<>> /\ Head(s) \in {"+", "-"}
        digits == IF signed THEN Tail(s) ELSE s
        wellFormed == /\ digits # <<>>
                      /\ Len(digits) <= 9
                      /\ \A i \in 1..Len(digits) :
                            \E d \in 1..10 : DigitChars[d] = digits[i]
    IN  IF ~wellFormed THEN [ok |-> FALSE, v |-> 0]
        ELSE IF Head(s) = "-" THEN [ok |-> TRUE, v |-> 0 - ParseDigits(digits, 0)]
        ELSE [ok |-> TRUE, v |-> ParseDigits(digits, 0)]

\* attributes[key], the zero value "" when the key is missing
Lookup(attributes, key) ==
    IF key \in DOMAIN attributes THEN attributes[key] ELSE <<>>

RECURSIVE LastIndex(_, _)
\* strings.LastIndex(s, c) for a one-character c, counted from 1; 0 if absent
LastIndex(s, c) ==
    IF s = <<>> THEN 0
    ELSE IF s[Len(s)] = c THEN Len(s)
    ELSE LastIndex(SubSeq(s, 1, Len(s) - 1), c)

\* time.Time{} and time.Unix(seconds, 0).UTC()
ZeroTime == [isZero |-> TRUE, unix |-> 0]
UnixTime(seconds) == [isZero |-> FALSE, unix |-> seconds]

\* parseInt64
parseInt64(raw) ==
    IF raw = <<>> THEN 0
    ELSE IF ~ParseInt(raw).ok THEN 0
    ELSE ParseInt(raw).v

\* parseUnixTime
parseUnixTime(raw) ==
    IF raw = <<>> THEN ZeroTime
    ELSE IF ~ParseInt(raw).ok THEN ZeroTime
    ELSE UnixTime(ParseInt(raw).v)

\* name := the part of queueURL after its last "/"
QueueNameOf(queueURL) ==
    SubSeq(queueURL, LastIndex(queueURL, "/") + 1, Len(queueURL))

\* faulty variant: only the FifoQueue attribute decides
SummaryQueueTypeFlagOnly(queueURL, attributes) ==
    IF Lookup(attributes, "FifoQueue") = <<"t", "r", "u", "e">>
    THEN QueueTypeFIFO
    ELSE QueueTypeStandard

\* queueType of buildQueueSummary
SummaryQueueType(queueURL, attributes) ==
    IF \/ Lookup(attributes, "FifoQueue") = <<"t", "r", "u", "e">>
       \/ HasSuffix(QueueNameOf(queueURL), DotFifo)
    THEN QueueTypeFIFO
    ELSE QueueTypeStandard

\* buildQueueSummary
buildQueueSummary(queueURL, attributes) ==
    [URL |-> queueURL,
     Name |-> QueueNameOf(queueURL),
     Type |-> SummaryQueueType(queueURL, attributes),
     CreatedAt |-> IF /\ "CreatedTimestamp" \in DOMAIN attributes
                      /\ ParseInt(attributes["CreatedTimestamp"]).ok
                   THEN UnixTime(ParseInt(attributes["CreatedTimestamp"]).v)
                   ELSE ZeroTime,
     MessagesAvailable |->
         parseInt64(Lookup(attributes, "ApproximateNumberOfMessages")),
     MessagesInFlight |->
         parseInt64(Lookup(attributes, "ApproximateNumberOfMessagesNotVisible")),
     Encryption |-> IF Lookup(attributes, "KmsMasterKeyId") # <<>>
                    THEN "KMS" ELSE "None",
     ContentBasedDeduplication |->
         Lookup(attributes, "ContentBasedDeduplication") = <<"t", "r", "u", "e">>]

\* QueueSummary{} and QueueDetail{}
ZeroSummary ==
    [URL |-> <<>>, Name |-> <<>>, Type |-> "", CreatedAt |-> ZeroTime,
     MessagesAvailable |-> 0, MessagesInFlight |-> 0, Encryption |-> "",
     ContentBasedDeduplication |-> FALSE]
ZeroDetail ==
    [QueueSummary |-> ZeroSummary, Arn |-> <<>>, LastModifiedAt |-> ZeroTime,
     Attributes |-> EmptyMap, Tags |-> EmptyMap]

(***************************************************************************)
(* SqsRepositoryImpl.GetQueueDetail                                        *)
(***************************************************************************)
\* the detail built from the fetched attributes, before the tags are known
DetailOf(queueURL, attributes) ==
    [QueueSummary |-> buildQueueSummary(queueURL, attributes),
     Arn |-> Lookup(attributes, "QueueArn"),
     LastModifiedAt |-> parseUnixTime(Lookup(attributes, "LastModifiedTimestamp")),
     Attributes |-> attributes,
     Tags |-> EmptyMap]

\* the tags of the detail: those of the answer unless the call failed
DetailTags(answer) ==
    IF answer.err # NoError THEN EmptyMap ELSE answer.Tags

\* faulty variant: a failed tag listing fails the operation
RepositoryGetQueueDetailTagsFatal(in, script) ==
    LET first == ProviderCall("GetQueueAttributes",
                              [QueueUrl |-> in.QueueURL, AttributeNames |-> <<"All">>],
                              script.attributes)
        second == ProviderCall("ListQueueTags", [QueueUrl |-> in.QueueURL],
                               script.tags)
    IN  IF script.attributes.err # NoError
        THEN [calls |-> <<first>>,
              reply |-> [err |-> Wrap(script.attributes.err,
                                      "failed to call GetQueueAttributes API"),
                         detail |-> ZeroDetail]]
        ELSE IF script.tags.err # NoError
        THEN [calls |-> <<first, second>>,
              reply |-> [err |-> Wrap(script.tags.err, "failed to call ListQueueTags API"),
                         detail |-> ZeroDetail]]
        ELSE [calls |-> <<first, second>>,
              reply |-> [err |-> NoError,
                         detail |-> [DetailOf(in.QueueURL, script.attributes.Attributes)
                                       EXCEPT !.Tags = DetailTags(script.tags)]]]

\* script.attributes answers GetQueueAttributes, script.tags ListQueueTags
RepositoryGetQueueDetail(in, script) ==
    LET first == ProviderCall("GetQueueAttributes",
                              [QueueUrl |-> in.QueueURL, AttributeNames |-> <<"All">>],
                              script.attributes)
        second == ProviderCall("ListQueueTags", [QueueUrl |-> in.QueueURL],
                               script.tags)
    IN  IF script.attributes.err # NoError
        THEN [calls |-> <<first>>,
              reply |-> [err |-> Wrap(script.attributes.err,
                                      "failed to call GetQueueAttributes API"),
                         detail |-> ZeroDetail]]
        ELSE [calls |-> <<first, second>>,
              reply |-> [err |-> NoError,
                         detail |-> [DetailOf(in.QueueURL, script.attributes.Attributes)
                                       EXCEPT !.Tags = DetailTags(script.tags)]]]

(***************************************************************************)
(* SqsRepositoryImpl.ListQueues                                            *)
(*                                                                         *)
(* The provider double is scripted by a list of items, each a queue URL    *)
(* with the answer to its GetQueueAttributes call or the end of a page     *)
(* that carries a continuation token, and by how the listing ends: "end"   *)
(* (the last page carries no token) or the error of the ListQueues call    *)
(* that follows the last page end.                                         *)
(***************************************************************************)
\* the characters of the model in the order of their byte values
AsciiOrder ==
    <<" ", "+", ",", "-", ".", "/", "0", "1", "2", "3", "4", "5", "6", "7",
      "8", "9", ":", "=", "A", "B", "C", "D", "E", "F", "G", "H", "I", "J", "K",
      "L", "M", "N", "O", "P", "Q", "R", "S", "T", "U", "V", "W", "X", "Y", "Z",
      "a", "b", "c", "d", "e", "f", "g", "h", "i", "j", "k", "l", "m", "n", "o",
      "p", "q", "r", "s", "t", "u", "v", "w", "x", "y", "z">>

CharRank(c) == CHOOSE i \in 1..Len(AsciiOrder) : AsciiOrder[i] = c

RECURSIVE StringLess(_, _)
\* a < b on Go strings
StringLess(a, b) ==
    IF b = <<>> THEN FALSE
    ELSE IF a = <<>> THEN TRUE
    ELSE IF Head(a) # Head(b) THEN CharRank(Head(a)) < CharRank(Head(b))
    ELSE StringLess(Tail(a), Tail(b))

\* faulty variant: the summaries stay in the order of arrival
SortSliceByNameUnsorted(queues) == {queues}

\* sort.Slice(queues, by Name): the sort is not stable, so every ordering of
\* the elements in which no later name is less than an earlier one can result
SortSliceByName(queues) ==
    LET n == Len(queues)
        orders == {f \in [1..n -> 1..n] : \A i, j \in 1..n : i # j => f[i] # f[j]}
    IN  {[i \in 1..n |-> queues[f[i]]] :
            f \in {g \in orders :
                      \A i, j \in 1..n :
                          i < j => ~StringLess(queues[g[j]].Name, queues[g[i]].Name)}}

baseAttributeNames ==
    <<"CreatedTimestamp", "ApproximateNumberOfMessages",
      "ApproximateNumberOfMessagesNotVisible", "KmsMasterKeyId">>

\* the attribute names ListQueues asks for
ListAttributeNames(url) ==
    IF HasSuffix(url, DotFifo)
    THEN baseAttributeNames \o <<"FifoQueue", "ContentBasedDeduplication">>
    ELSE baseAttributeNames

\* attrMap: the fetched attributes, FifoQueue forced for a .fifo URL
ListAttrMap(url, attributes) ==
    IF HasSuffix(url, DotFifo)
    THEN ("FifoQueue" :> <<"t", "r", "u", "e">>) @@ attributes
    ELSE attributes

\* faulty variant: a summary is appended whether or not the fetch succeeded
ListAppendQueueAlways(queues, item) ==
    Append(queues, buildQueueSummary(item.url,
                                     ListAttrMap(item.url, item.answer.Attributes)))

\* the body of the loop over resp.QueueUrls for one URL: the summaries so far
\* with that of the URL appended, unless its attribute fetch failed
ListAppendQueue(queues, item) ==
    IF item.answer.err # NoError THEN queues
    ELSE Append(queues, buildQueueSummary(item.url,
                                          ListAttrMap(item.url, item.answer.Attributes)))

\* the GetQueueAttributes call of the loop for one URL
ListFetchCall(item) ==
    ProviderCall("GetQueueAttributes",
                 [QueueUrl |-> item.url, AttributeNames |-> ListAttributeNames(item.url)],
                 item.answer)

\* the token the provider double hands out with its n-th page
PageToken(n) == StringPtr(<<"t">> \o FormatInt(n))

RECURSIVE PageURLs(_, _)
\* resp.QueueUrls of the page that starts at item i
PageURLs(items, i) ==
    IF i > Len(items) \/ items[i].kind = "break" THEN <<>>
    ELSE <<items[i].url>> \o PageURLs(items, i + 1)

\* resp.NextToken of the page that starts at item i: the token of that page
\* when a page end follows in the script, nil when the script ends first
ListNextToken(items, i, page) ==
    IF \E j \in i..Len(items) : items[j].kind = "break"
    THEN PageToken(page)
    ELSE NilString

\* the ListQueues call with the given token, answered with err or with the
\* page that starts at item i of the script
ListPageCall(token, err, items, i, page) ==
    ProviderCall("ListQueues", [NextToken |-> token],
                 IF err # NoError
                 THEN [err |-> err, QueueUrls |-> <<>>, NextToken |-> NilString]
                 ELSE [err |-> NoError, QueueUrls |-> PageURLs(items, i),
                       NextToken |-> ListNextToken(items, i, page)])

RECURSIVE ListQueuesLoop(_, _, _, _, _, _)
\* the for loop of ListQueues, from item i on, inside page number page; the
\* result is the summaries before the sort, nil after a failed page call
ListQueuesLoop(items, last, i, page, queues, calls) ==
    IF i > Len(items)
    THEN [calls |-> calls, err |-> NoError, queues |-> queues]
    ELSE IF items[i].kind = "url"
    THEN ListQueuesLoop(items, last, i + 1, page,
                        ListAppendQueue(queues, items[i]),
                        Append(calls, ListFetchCall(items[i])))
    ELSE IF i = Len(items) /\ last # "end"
    THEN [calls |-> Append(calls, ListPageCall(PageToken(page), last, items, i + 1,
                                               page + 1)),
          err |-> Wrap(last, "failed to call ListQueues API"),
          queues |-> <<>>]
    ELSE ListQueuesLoop(items, last, i + 1, page + 1, queues,
                        Append(calls, ListPageCall(PageToken(page), NoError, items,
                                                   i + 1, page + 1)))

\* the first ListQueues call: without a token
ListQueuesCollect(script) ==
    IF script.items = <<>> /\ script.last # "end"
    THEN [calls |-> <<ListPageCall(NilString, script.last, script.items, 1, 1)>>,
          err |-> Wrap(script.last, "failed to call ListQueues API"),
          queues |-> <<>>]
    ELSE ListQueuesLoop(script.items, script.last, 1, 1, <<>>,
                        <<ListPageCall(NilString, NoError, script.items, 1, 1)>>)

\* faulty variant: a failed page call ends the listing without an error
RepositoryListQueuesIgnoresPageError(script) ==
    LET run == ListQueuesCollect(script)
    IN  {[calls |-> run.calls, reply |-> [err |-> NoError, queues |-> sorted]] :
            sorted \in SortSliceByName(run.queues)}

\* SqsRepositoryImpl.ListQueues: every outcome the sort allows
RepositoryListQueues(script) ==
    LET run == ListQueuesCollect(script)
    IN  IF run.err # NoError
        THEN {[calls |-> run.calls, reply |-> [err |-> run.err, queues |-> <<>>]]}
        ELSE {[calls |-> run.calls, reply |-> [err |-> NoError, queues |-> sorted]] :
                 sorted \in SortSliceByName(run.queues)}

(***************************************************************************)
(* SqsRepositoryImpl.ReceiveMessages                                       *)
(***************************************************************************)
RECURSIVE SortStrings(_)
\* sort.Strings over the keys of a map: ascending by byte order
SortStrings(keys) ==
    IF keys = {} THEN <<>>
    ELSE LET least == CHOOSE k \in keys : \A other \in keys \ {k} : StringLess(k, other)
         IN  <<least>> \o SortStrings(keys \ {least})

RECURSIVE Join(_, _)
\* strings.Join
Join(elems, sep) ==
    IF elems = <<>> THEN <<>>
    ELSE IF Len(elems) = 1 THEN elems[1]
    ELSE elems[1] \o sep \o Join(Tail(elems), sep)

Base64Alphabet ==
    <<"A", "B", "C", "D", "E", "F", "G", "H", "I", "J", "K", "L", "M", "N", "O", "P",
      "Q", "R", "S", "T", "U", "V", "W", "X", "Y", "Z", "a", "b", "c", "d", "e", "f",
      "g", "h", "i", "j", "k", "l", "m", "n", "o", "p", "q", "r", "s", "t", "u", "v",
      "w", "x", "y", "z", "0", "1", "2", "3", "4", "5", "6", "7", "8", "9", "+", "/">>

Base64Char(n) == Base64Alphabet[(n % 64) + 1]

RECURSIVE Base64(_)
\* base64.StdEncoding.EncodeToString over a sequence of bytes
Base64(bytes) ==
    IF bytes = <<>> THEN <<>>
    ELSE IF Len(bytes) = 1
    THEN <<Base64Char(bytes[1] \div 4), Base64Char((bytes[1] % 4) * 16), "=", "=">>
    ELSE IF Len(bytes) = 2
    THEN <<Base64Char(bytes[1] \div 4),
           Base64Char((bytes[1] % 4) * 16 + bytes[2] \div 16),
           Base64Char((bytes[2] % 16) * 4), "=">>
    ELSE <<Base64Char(bytes[1] \div 4),
           Base64Char((bytes[1] % 4) * 16 + bytes[2] \div 16),
           Base64Char((bytes[2] % 16) * 4 + bytes[3] \div 64),
           Base64Char(bytes[3])>> \o Base64(SubSeq(bytes, 4, Len(bytes)))

\* n written with at least width digits
Padded(n, width) ==
    LET digits == FormatNat(n)
    IN  [i \in 1..(width - Len(digits)) |-> "0"] \o digits

\* the civil date of the day that lies days after 1970-01-01
CivilFromDays(days) ==
    LET z == days + 719468
        era == z \div 146097
        doe == z - era * 146097
        yoe == (doe - doe \div 1460 + doe \div 36524 - doe \div 146096) \div 365
        doy == doe - (365 * yoe + yoe \div 4 - yoe \div 100)
        mp == (5 * doy + 2) \div 153
        m == IF mp < 10 THEN mp + 3 ELSE mp - 9
    IN  [year |-> yoe + era * 400 + (IF m <= 2 THEN 1 ELSE 0),
         month |-> m,
         day |-> doy - (153 * mp + 2) \div 5 + 1]

\* time.UnixMilli(ts).UTC().Format(time.RFC3339)
FormatRFC3339(ts) ==
    LET seconds == ts \div 1000
        date == CivilFromDays(seconds \div 86400)
        ofDay == seconds % 86400
    IN  Padded(date.year, 4) \o <<"-">> \o Padded(date.month, 2) \o <<"-">>
        \o Padded(date.day, 2) \o <<"T">> \o Padded(ofDay \div 3600, 2) \o <<":">>
        \o Padded((ofDay % 3600) \div 60, 2) \o <<":">> \o Padded(ofDay % 60, 2)
        \o <<"Z">>

SentTimestamp == <<"S", "e", "n", "t", "T", "i", "m", "e", "s", "t", "a", "m", "p">>
ApproximateFirstReceiveTimestamp ==
    <<"A", "p", "p", "r", "o", "x", "i", "m", "a", "t", "e", "F", "i", "r", "s", "t",
      "R", "e", "c", "e", "i", "v", "e">> \o <<"T", "i", "m", "e", "s", "t", "a", "m", "p">>
ApproximateReceiveCount ==
    <<"A", "p", "p", "r", "o", "x", "i", "m", "a", "t", "e", "R", "e", "c", "e", "i",
      "v", "e", "C", "o", "u", "n", "t">>
MessageGroupId == <<"M", "e", "s", "s", "a", "g", "e", "G", "r", "o", "u", "p", "I", "d">>

\* formatSystemAttribute
formatSystemAttribute(key, value) ==
    IF key \in {SentTimestamp, ApproximateFirstReceiveTimestamp}
    THEN IF value = <<>> THEN value
         ELSE IF ParseInt(value).ok THEN FormatRFC3339(ParseInt(value).v)
         ELSE value
    ELSE value

\* req of ReceiveMessages
ReceiveMessageRequest(in) ==
    [QueueUrl |-> in.QueueURL,
     MaxNumberOfMessages |-> in.MaxMessages,
     WaitTimeSeconds |-> in.WaitTimeSeconds,
     VisibilityTimeout |-> 0,
     MessageAttributeNames |-> <<"All">>,
     MessageSystemAttributeNames |->
        <<"ApproximateReceiveCount", "SentTimestamp", "MessageGroupId",
          "MessageDeduplicationId", "SequenceNumber">>]

\* receiveCount of a message
ReceiveCountOf(msg) ==
    IF /\ ApproximateReceiveCount \in DOMAIN msg.Attributes
       /\ ParseInt(msg.Attributes[ApproximateReceiveCount]).ok
    THEN ParseInt(msg.Attributes[ApproximateReceiveCount]).v
    ELSE 0

\* what the loop over customKeys appends for one key: one entry, or none when
\* the value carries nothing
CustomAttribute(key, value) ==
    IF ~value.StringValue.isNil
    THEN <<[Name |-> key, Value |-> value.StringValue.v]>>
    ELSE IF Len(value.StringListValues) > 0
    THEN <<[Name |-> key, Value |-> Join(value.StringListValues, <<",", " ">>)]>>
    ELSE IF Len(value.BinaryValue) > 0
    THEN <<[Name |-> key, Value |-> Base64(value.BinaryValue)]>>
    ELSE IF Len(value.BinaryListValues) > 0
    THEN <<[Name |-> key,
            Value |-> Join([i \in 1..Len(value.BinaryListValues) |->
                               Base64(value.BinaryListValues[i])], <<",", " ">>)]>>
    ELSE <<>>

RECURSIVE CustomAttributes(_, _)
\* the loop over customKeys
CustomAttributes(keys, values) ==
    IF keys = <<>> THEN <<>>
    ELSE CustomAttribute(Head(keys), values[Head(keys)])
         \o CustomAttributes(Tail(keys), values)

\* the loop over systemKeys
SystemAttributes(keys, values) ==
    [i \in 1..Len(keys) |->
        [Name |-> keys[i], Value |-> formatSystemAttribute(keys[i], values[keys[i]])]]

\* faulty variant: custom and system attributes sorted into one list
ReceivedAttributesMerged(msg) ==
    LET listed == CustomAttributes(SortStrings(DOMAIN msg.MessageAttributes),
                                   msg.MessageAttributes)
                  \o SystemAttributes(SortStrings(DOMAIN msg.Attributes), msg.Attributes)
        names == SortStrings({listed[i].Name : i \in 1..Len(listed)})
    IN  [i \in 1..Len(names) |->
            listed[CHOOSE j \in 1..Len(listed) : listed[j].Name = names[i]]]

\* attributes of a message: the custom ones, then the system ones
ReceivedAttributes(msg) ==
    CustomAttributes(SortStrings(DOMAIN msg.MessageAttributes), msg.MessageAttributes)
    \o SystemAttributes(SortStrings(DOMAIN msg.Attributes), msg.Attributes)

\* the ReceivedMessage built from a message of the response
ReceivedMessageOf(msg) ==
    [ID |-> msg.MessageId,
     Body |-> msg.Body,
     ReceiptHandle |-> msg.ReceiptHandle,
     ReceiveCount |-> ReceiveCountOf(msg),
     Attributes |-> ReceivedAttributes(msg)]

\* SqsRepositoryImpl.ReceiveMessages
RepositoryReceiveMessages(in, answer) ==
    [calls |-> <<ProviderCall("ReceiveMessage", ReceiveMessageRequest(in), answer)>>,
     reply |-> IF answer.err # NoError
               THEN [err |-> Wrap(answer.err, "failed to call ReceiveMessage API"),
                     messages |-> <<>>]
               ELSE [err |-> NoError,
                     messages |-> [i \in 1..Len(answer.Messages) |->
                                      ReceivedMessageOf(answer.Messages[i])]]]

\* the values of a custom attribute in the answers of the provider double
NoValue ==
    [StringValue |-> NilString, StringListValues |-> <<>>, BinaryValue |-> <<>>,
     BinaryListValues |-> <<>>]
StringAttr(v) == [NoValue EXCEPT !.StringValue = StringPtr(v)]
StringListAttr(l) == [NoValue EXCEPT !.StringListValues = l]
BinaryAttr(b) == [NoValue EXCEPT !.BinaryValue = b]
BinaryListAttr(l) == [NoValue EXCEPT !.BinaryListValues = l]

\* the messages the provider double delivers
ProviderMessages ==
    <<[MessageId |-> <<"1">>, Body |-> <<"x">>, ReceiptHandle |-> <<"r">>,
       Attributes |-> (ApproximateReceiveCount :> <<"2">>)
                        @@ (SentTimestamp :> <<"8", "6", "4", "0", "0", "0", "0", "0">>)
                        @@ (MessageGroupId :> <<"g">>),
       MessageAttributes |-> (<<"b">> :> StringAttr(<<"v">>))
                               @@ (<<"a">> :> StringListAttr(<<(<<"p">>), (<<"q">>)>>))
                               @@ (<<"T">> :> BinaryAttr(<<1, 2>>))
                               @@ (<<"c">> :> NoValue)],
      [MessageId |-> <<"2">>, Body |-> <<>>, ReceiptHandle |-> <<"s">>,
       Attributes |-> EmptyMap, MessageAttributes |-> EmptyMap],
      [MessageId |-> <<"3">>, Body |-> <<"y">>, ReceiptHandle |-> <<"t">>,
       Attributes |-> (ApproximateReceiveCount :> <<"x">>) @@ (SentTimestamp :> <<>>)
                        @@ (ApproximateFirstReceiveTimestamp :> <<"-", "1">>),
       MessageAttributes |-> (<<"z">> :> BinaryListAttr(<<(<<255>>), (<<0, 0, 0>>)>>))
                               @@ (<<"B">> :> StringAttr(<<>>))],
      [MessageId |-> <<"4">>, Body |-> <<"z">>, ReceiptHandle |-> <<"w">>,
       Attributes |-> (ApproximateReceiveCount :> <<"-", "1">>),
       MessageAttributes |-> EmptyMap]>>

\* the answers of the provider double to ReceiveMessage
ReceiveMessageAnswers ==
    {[err |-> NoError, Messages |-> <<>>],
     [err |-> NoError, Messages |-> <<ProviderMessages[1]>>],
     [err |-> NoError, Messages |-> <<ProviderMessages[3], ProviderMessages[2]>>],
     [err |-> NoError, Messages |-> <<ProviderMessages[4]>>]}
    \cup {[err |-> e, Messages |-> <<>>] : e \in ProviderErrors}

\* the answers of the provider double to a call that returns no payload
ErrorAnswers == [err : ProviderOutcomes]

\* the answers of the provider double to CreateQueue
CreateQueueAnswers ==
    {[QueueUrl |-> StringPtr(<<"q">>), err |-> NoError],
     [QueueUrl |-> NilString, err |-> NoError]}
    \cup {[QueueUrl |-> NilString, err |-> e] : e \in ProviderErrors}

\* the attribute maps the provider double answers GetQueueAttributes with
QueueAttributeMaps ==
    {EmptyMap,
     ("CreatedTimestamp" :> <<"5">>) @@ ("ApproximateNumberOfMessages" :> <<"3">>)
        @@ ("ApproximateNumberOfMessagesNotVisible" :> <<"1">>)
        @@ ("KmsMasterKeyId" :> <<"k">>) @@ ("QueueArn" :> <<"a">>)
        @@ ("LastModifiedTimestamp" :> <<"7">>),
     ("FifoQueue" :> <<"t", "r", "u", "e">>)
        @@ ("ContentBasedDeduplication" :> <<"t", "r", "u", "e">>)
        @@ ("ApproximateNumberOfMessages" :> <<"-", "2">>),
     ("CreatedTimestamp" :> <<>>) @@ ("ApproximateNumberOfMessages" :> <<"x">>),
     ("FifoQueue" :> <<"f", "a", "l", "s", "e">>)}

\* the queue URLs QueueDetail is invoked with
DetailURLs == QueueURLs \cup {<<"h", "/", "q">> \o DotFifo}

\* the answers of the provider double to GetQueueAttributes
AttributeAnswers ==
    {[err |-> NoError, Attributes |-> m] : m \in QueueAttributeMaps}
    \cup {[err |-> e, Attributes |-> EmptyMap] : e \in ProviderErrors}

\* the answers of the provider double to ListQueueTags
TagAnswers ==
    {[err |-> NoError, Tags |-> EmptyMap],
     [err |-> NoError, Tags |-> (<<"t">> :> <<"v">>)]}
    \cup {[err |-> e, Tags |-> EmptyMap] : e \in ProviderErrors}

\* the provider double honours the context: once it has answered a call with
\* the cancellation error, it answers every later call of the invocation so
DetailScripts ==
    {script \in [attributes : AttributeAnswers, tags : TagAnswers] :
        script.attributes.err = ContextCanceled => script.tags.err = ContextCanceled}

\* the queue URLs of a listing; two of them carry the same queue name
ListedURLs ==
    {<<"h", "/", "b">>, <<"h", "/", "a">> \o DotFifo, <<"g", "/", "b">>}

\* the answers of the provider double to the GetQueueAttributes of a listing
ListAttributeAnswers ==
    {[err |-> NoError,
      Attributes |-> ("CreatedTimestamp" :> <<"5">>)
                        @@ ("ApproximateNumberOfMessages" :> <<"3">>)]}
    \cup {[err |-> e, Attributes |-> EmptyMap] : e \in ProviderErrors}

\* the end of a page that carries a continuation token
PageBreak ==
    [kind |-> "break", url |-> <<>>, answer |-> [err |-> NoError, Attributes |-> EmptyMap]]

ListItems ==
    {PageBreak}
    \cup {[kind |-> "url", url |-> u, answer |-> a] :
             u \in ListedURLs, a \in ListAttributeAnswers}

\* a listing the provider double can deliver: a failing ListQueues call is
\* the one after the last page end, and the context is honoured as above
ListScriptOK(script) ==
    LET items == script.items
        n == Len(items)
    IN  /\ script.last # "end" /\ n > 0 => items[n].kind = "break"
        /\ \A i, j \in 1..n :
              i < j /\ items[i].kind = "url" /\ items[i].answer.err = ContextCanceled
              => \/ items[j].kind = "url" /\ items[j].answer.err = ContextCanceled
                 \/ items[j].kind = "break" /\ j = n /\ script.last = ContextCanceled

ListScripts ==
    {script \in [items : UNION {[1..n -> ListItems] : n \in 0..MaxListing},
                 last : {"end"} \cup ProviderErrors] : ListScriptOK(script)}

\* the repository was not reached: no provider call, nothing to reply
NotCalled ==
    [calls |-> <<>>,
     reply |-> [err |-> NoError, url |-> <<>>, messages |-> <<>>,
                detail |-> ZeroDetail, zero |-> ZeroDetail]]

(***************************************************************************)
(* Helpers of the HTTP handlers (internal/handler.go).                     *)
(***************************************************************************)
\* the bytes 32 to 126; the grave accent, byte 96, is written \x60
PrintableASCII ==
    <<" ", "!", "\"", "#", "$", "%", "&", "'", "(", ")", "*", "+",
      ",", "-", ".", "/", "0", "1", "2", "3", "4", "5", "6", "7",
      "8", "9", ":", ";", "<", "=", ">", "?", "@", "A", "B", "C",
      "D", "E", "F", "G", "H", "I", "J", "K", "L", "M", "N", "O",
      "P", "Q", "R", "S", "T", "U", "V", "W", "X", "Y", "Z", "[",
      "\\", "]", "^", "_", "\\x60", "a", "b", "c", "d", "e", "f", "g",
      "h", "i", "j", "k", "l", "m", "n", "o", "p", "q", "r", "s",
      "t", "u", "v", "w", "x", "y", "z", "{", "|", "}", "~">>

HexDigits == <<"0", "1", "2", "3", "4", "5", "6", "7", "8", "9",
               "A", "B", "C", "D", "E", "F">>
LowerHexDigits == <<"a", "b", "c", "d", "e", "f">>

\* net/url ishex and unhex
ishex(c) ==
    \/ \E i \in 1..16 : HexDigits[i] = c
    \/ \E i \in 1..6 : LowerHexDigits[i] = c

unhex(c) ==
    IF \E i \in 1..16 : HexDigits[i] = c
    THEN (CHOOSE i \in 1..16 : HexDigits[i] = c) - 1
    ELSE (CHOOSE i \in 1..6 : LowerHexDigits[i] = c) + 9

\* the character of a byte; a byte outside tab, newline and 32..126 is
\* written \xHH
ByteChar(n) ==
    IF n \in 32..126 THEN PrintableASCII[n - 31]
    ELSE IF n = 9 THEN "\t"
    ELSE IF n = 10 THEN "\n"
    ELSE "\\x" \o HexDigits[(n \div 16) + 1] \o HexDigits[(n % 16) + 1]

CharByte(c) == CHOOSE n \in 0..255 : ByteChar(n) = c

\* a "%" of s that is not followed by two hex digits
BadEscape(s) ==
    \E i \in 1..Len(s) :
        /\ s[i] = "%"
        /\ \/ i + 2 > Len(s)
           \/ ~ishex(s[i + 1])
           \/ ~ishex(s[i + 2])

RECURSIVE Unescaped(_)
\* the decoding pass of url.QueryUnescape: %HH is a byte, "+" is a space
Unescaped(s) ==
    IF s = <<>> THEN <<>>
    ELSE IF Head(s) = "%"
    THEN <<ByteChar(16 * unhex(s[2]) + unhex(s[3]))>> \o Unescaped(SubSeq(s, 4, Len(s)))
    ELSE IF Head(s) = "+" THEN <<" ">> \o Unescaped(Tail(s))
    ELSE <<Head(s)>> \o Unescaped(Tail(s))

\* url.QueryUnescape
QueryUnescape(s) ==
    IF BadEscape(s) THEN [err |-> "invalid URL escape", v |-> <<>>]
    ELSE [err |-> NoError, v |-> Unescaped(s)]

\* net/url shouldEscape in a query component: letters, digits, "-", "_",
\* "." and "~" stay
Unreserved(c) ==
    LET n == CharByte(c)
    IN  \/ n \in 48..57
        \/ n \in 65..90
        \/ n \in 97..122
        \/ c \in {"-", "_", ".", "~"}

RECURSIVE QueryEscape(_)
\* url.QueryEscape
QueryEscape(s) ==
    IF s = <<>> THEN <<>>
    ELSE (IF Head(s) = " " THEN <<"+">>
          ELSE IF Unreserved(Head(s)) THEN <<Head(s)>>
          ELSE <<"%", HexDigits[(CharByte(Head(s)) \div 16) + 1],
                      HexDigits[(CharByte(Head(s)) % 16) + 1]>>)
         \o QueryEscape(Tail(s))

\* faulty variant: a queue URL that decodes to a blank string is accepted
queueURLFromRequestBlankAccepted(encodedURL) ==
    IF encodedURL = <<>>
    THEN [queueURL |-> <<>>, status |-> 400, err |-> "queue url is required"]
    ELSE IF QueryUnescape(encodedURL).err # NoError
    THEN [queueURL |-> <<>>, status |-> 400, err |-> "invalid queue url"]
    ELSE [queueURL |-> QueryUnescape(encodedURL).v, status |-> 0, err |-> NoError]

\* queueURLFromRequest, on r.PathValue("url")
queueURLFromRequest(encodedURL) ==
    IF encodedURL = <<>>
    THEN [queueURL |-> <<>>, status |-> 400, err |-> "queue url is required"]
    ELSE IF QueryUnescape(encodedURL).err # NoError
    THEN [queueURL |-> <<>>, status |-> 400, err |-> "invalid queue url"]
    ELSE IF TrimSpace(QueryUnescape(encodedURL).v) = <<>>
    THEN [queueURL |-> <<>>, status |-> 400, err |-> "queue url is required"]
    ELSE [queueURL |-> QueryUnescape(encodedURL).v, status |-> 0, err |-> NoError]

\* if status == 0 { status = http.StatusBadRequest }
StatusOrBadRequest(status) == IF status = 0 THEN 400 ELSE status

\* extractQueueName
extractQueueName(queueURL) ==
    IF LastIndex(queueURL, "/") >= 1
    THEN SubSeq(queueURL, LastIndex(queueURL, "/") + 1, Len(queueURL))
    ELSE queueURL

RECURSIVE ParseInt32Digits(_, _, _)
\* the digits of s read from the left into a 32-bit value of the given sign;
\* ok is FALSE once the value leaves the int32 range
ParseInt32Digits(s, sign, acc) ==
    IF s = <<>> THEN [ok |-> TRUE, v |-> acc]
    ELSE LET d == (CHOOSE i \in 1..10 : DigitChars[i] = Head(s)) - 1
         IN  IF sign = 1 /\ (acc > 214748364 \/ (acc = 214748364 /\ d > 7))
             THEN [ok |-> FALSE, v |-> 0]
             ELSE IF sign = 0 - 1
                     /\ (acc < 0 - 214748364 \/ (acc = 0 - 214748364 /\ d > 8))
             THEN [ok |-> FALSE, v |-> 0]
             ELSE ParseInt32Digits(Tail(s), sign, 10 * acc + sign * d)

\* strconv.ParseInt(raw, 10, 32): an optional sign, then decimal digits only
ParseInt32(raw) ==
    LET signed == raw # <<>> /\ Head(raw) \in {"+", "-"}
        digits == IF signed THEN Tail(raw) ELSE raw
        wellFormed == /\ digits # <<>>
                      /\ \A i \in 1..Len(digits) :
                            \E d \in 1..10 : DigitChars[d] = digits[i]
    IN  IF ~wellFormed THEN [ok |-> FALSE, v |-> 0]
        ELSE ParseInt32Digits(digits, IF Head(raw) = "-" THEN 0 - 1 ELSE 1, 0)

\* faulty variant: the range is not checked
parseOptionalInt32Unchecked(raw, min, max, message) ==
    IF raw = <<>> THEN [value |-> NilInt, err |-> NoError]
    ELSE IF ~ParseInt32(raw).ok THEN [value |-> NilInt, err |-> message]
    ELSE [value |-> Int32Ptr(ParseInt32(raw).v), err |-> NoError]

\* parseOptionalInt32
parseOptionalInt32(raw, min, max, message) ==
    IF raw = <<>> THEN [value |-> NilInt, err |-> NoError]
    ELSE IF ~ParseInt32(raw).ok THEN [value |-> NilInt, err |-> message]
    ELSE IF ParseInt32(raw).v < min \/ ParseInt32(raw).v > max
    THEN [value |-> NilInt, err |-> message]
    ELSE [value |-> Int32Ptr(ParseInt32(raw).v), err |-> NoError]

(***************************************************************************)
(* State: one caller at a time invokes an operation of the service; the    *)
(* calls the repository and the provider double received during the        *)
(* invocation are recorded.                                                *)
(***************************************************************************)
VARIABLES
    pc,            \* "idle", or "returned" once an operation has returned
    op,            \* the operation invoked last
    input,         \* its input
    repoCalls,     \* the calls the repository received during it
    providerCalls, \* the calls the provider double received during it
    result,        \* what it returned
    callers,       \* the concurrent callers: for each its position and locals
    http           \* the HTTP exchange: request, calls of the service, response

vars == <<pc, op, input, repoCalls, providerCalls, result, callers, http>>
seqVars == <<pc, op, input, repoCalls, providerCalls, result>>

\* the callers that invoke the service concurrently
Callers == {1, 2}

\* a caller outside any invocation; inside one, the record holds the locals
\* of the method it runs: input.NextToken, the rest of resp.QueueUrls,
\* resp.NextToken, queues, detail, and the answers the provider gave it
IdleCaller ==
    [pc |-> "idle", op |-> "none", in |-> <<>>, token |-> NilString, urls |-> <<>>,
     next |-> NilString, queues |-> <<>>, detail |-> ZeroDetail, log |-> <<>>,
     result |-> [err |-> NoError, queues |-> <<>>, detail |-> ZeroDetail]]

NoInput == [none |-> TRUE]
NoResult == [err |-> NoError]

\* http.ResponseWriter before anything was written
NoResponse == [status |-> 0, kind |-> "", message |-> ""]

\* no request is being handled
IdleHTTP ==
    [pc |-> "idle", handler |-> "none", request |-> [none |-> TRUE],
     serviceCalls |-> <<>>, response |-> NoResponse]

Init ==
    /\ pc = "idle"
    /\ op = "none"
    /\ input = NoInput
    /\ repoCalls = <<>>
    /\ providerCalls = <<>>
    /\ result = NoResult
    /\ callers = [c \in Callers |-> IdleCaller]
    /\ http = IdleHTTP

\* an invocation ran to its return; repo is what the repository did in it
Returned(name, in, run, repo) ==
    /\ pc' = "returned"
    /\ op' = name
    /\ input' = in
    /\ repoCalls' = run.calls
    /\ providerCalls' = repo.calls
    /\ result' = run.result
    /\ UNCHANGED <<callers, http>>

Queues ==
    /\ pc = "idle"
    /\ \E script \in ListScripts :
        \E repo \in RepositoryListQueues(script) :
            Returned("Queues", NoInput, QueuesRun(repo.reply), repo)

CreateQueue ==
    /\ pc = "idle"
    /\ \E in \in CreateQueueInputs, answer \in CreateQueueAnswers :
        LET sent == CreateQueueRun(in, NotCalled.reply).calls
            repo == IF sent = <<>> THEN NotCalled
                    ELSE RepositoryCreateQueue(sent[1].input, answer)
        IN  Returned("CreateQueue", in, CreateQueueRun(in, repo.reply), repo)

QueueDetail ==
    /\ pc = "idle"
    /\ \E url \in DetailURLs, script \in DetailScripts :
        LET sent == QueueDetailRun(url, NotCalled.reply).calls
            repo == IF sent = <<>> THEN NotCalled
                    ELSE RepositoryGetQueueDetail(sent[1].input, script)
        IN  Returned("QueueDetail", [QueueURL |-> url],
                     QueueDetailRun(url, repo.reply), repo)

DeleteQueue ==
    /\ pc = "idle"
    /\ \E url \in QueueURLs, answer \in ErrorAnswers :
        LET sent == DeleteQueueRun(url, NotCalled.reply).calls
            repo == IF sent = <<>> THEN NotCalled
                    ELSE RepositoryDeleteQueue(sent[1].input, answer)
        IN  Returned("DeleteQueue", [QueueURL |-> url],
                     DeleteQueueRun(url, repo.reply), repo)

PurgeQueue ==
    /\ pc = "idle"
    /\ \E url \in QueueURLs, answer \in ErrorAnswers :
        LET sent == PurgeQueueRun(url, NotCalled.reply).calls
            repo == IF sent = <<>> THEN NotCalled
                    ELSE RepositoryPurgeQueue(sent[1].input, answer)
        IN  Returned("PurgeQueue", [QueueURL |-> url],
                     PurgeQueueRun(url, repo.reply), repo)

SendMessage ==
    /\ pc = "idle"
    /\ \E in \in SendMessageInputs, answer \in ErrorAnswers :
        LET sent == SendMessageRun(in, NotCalled.reply).calls
            repo == IF sent = <<>> THEN NotCalled
                    ELSE RepositorySendMessage(sent[1].input, answer)
        IN  Returned("SendMessage", in, SendMessageRun(in, repo.reply), repo)

ReceiveMessages ==
    /\ pc = "idle"
    /\ \E in \in ReceiveMessagesInputs, answer \in ReceiveMessageAnswers :
        LET sent == ReceiveMessagesRun(in, NotCalled.reply).calls
            repo == IF sent = <<>> THEN NotCalled
                    ELSE RepositoryReceiveMessages(sent[1].input, answer)
        IN  Returned("ReceiveMessages", in, ReceiveMessagesRun(in, repo.reply), repo)

DeleteMessage ==
    /\ pc = "idle"
    /\ \E in \in DeleteMessageInputs, answer \in ErrorAnswers :
        LET sent == DeleteMessageRun(in, NotCalled.reply).calls
            repo == IF sent = <<>> THEN NotCalled
                    ELSE RepositoryDeleteMessage(sent[1].input, answer)
        IN  Returned("DeleteMessage", in, DeleteMessageRun(in, repo.reply), repo)

\* the caller has consumed the result; the service keeps nothing
NextCall ==
    /\ pc = "returned"
    /\ pc' = "idle"
    /\ op' = "none"
    /\ input' = NoInput
    /\ repoCalls' = <<>>
    /\ providerCalls' = <<>>
    /\ result' = NoResult
    /\ UNCHANGED <<callers, http>>

Next ==
    \/ Queues
    \/ CreateQueue
    \/ QueueDetail
    \/ DeleteQueue
    \/ PurgeQueue
    \/ SendMessage
    \/ ReceiveMessages
    \/ DeleteMessage
    \/ NextCall

Spec == Init /\ [][Next]_vars

(***************************************************************************)
(* Concurrent callers.  SqsServiceImpl holds only repo and                 *)
(* SqsRepositoryImpl only sqsClient, both set at construction; everything  *)
(* else a method touches is local to the invocation.  Each caller runs     *)
(* Queues or QueueDetail one provider call at a time, and the calls of     *)
(* the callers interleave in every order.                                  *)
(***************************************************************************)
ConcURLs == {<<"u">>, <<" ">>}

\* the n-th page the provider double delivers to a listing of a concurrent
\* caller
ConcPage(n) ==
    IF n = 1 THEN <<(<<"h", "/", "b">>), (<<"h", "/", "a">> \o DotFifo)>>
    ELSE <<(<<"g", "/", "b">>)>>

ConcAttributeAnswers ==
    {[err |-> NoError,
      Attributes |-> ("CreatedTimestamp" :> <<"5">>)
                        @@ ("ApproximateNumberOfMessages" :> <<"3">>)],
     [err |-> "boom", Attributes |-> EmptyMap]}

ConcTagAnswers ==
    {[err |-> NoError, Tags |-> (<<"t">> :> <<"v">>)],
     [err |-> "boom", Tags |-> EmptyMap]}

\* how many ListQueues calls the invocation has made
PagesSoFar(me) ==
    Cardinality({i \in 1..Len(me.log) : me.log[i].api = "ListQueues"})

\* the answers of the provider double to the next ListQueues call of a caller
ConcPageAnswers(me) ==
    {[err |-> "boom", QueueUrls |-> <<>>, NextToken |-> NilString]}
    \cup {[err |-> NoError, QueueUrls |-> ConcPage(PagesSoFar(me) + 1),
            NextToken |-> NilString]}
    \cup {[err |-> NoError, QueueUrls |-> ConcPage(n), NextToken |-> PageToken(n)] :
             n \in {k \in {PagesSoFar(me) + 1} : k < MaxConcPages}}

\* faulty variant: queues is one slice shared by all callers
QueuesOfShared(state, c) == state[1].queues

\* queues := make([]QueueSummary, 0): the slice of the invocation of caller c
QueuesOf(state, c) == state[c].queues

\* faulty variant: the next page is asked for without the token
ListContinueDropsToken(me) ==
    IF me.urls # <<>> THEN {[me EXCEPT !.pc = "fetch"]}
    ELSE IF ~me.next.isNil THEN {[me EXCEPT !.pc = "list", !.token = NilString]}
    ELSE {[me EXCEPT !.pc = "done",
                     !.result = [err |-> NoError, queues |-> sorted,
                                 detail |-> ZeroDetail]] :
             sorted \in SortSliceByName(me.queues)}

\* where ListQueues goes on after a URL or an empty page: to the next URL,
\* to the next page, or to the sort and the return
ListContinue(me) ==
    IF me.urls # <<>> THEN {[me EXCEPT !.pc = "fetch"]}
    ELSE IF ~me.next.isNil THEN {[me EXCEPT !.pc = "list", !.token = me.next]}
    ELSE {[me EXCEPT !.pc = "done",
                     !.result = [err |-> NoError, queues |-> sorted,
                                 detail |-> ZeroDetail]] :
             sorted \in SortSliceByName(me.queues)}

\* a caller invokes Queues
ConcQueues(c) ==
    /\ callers[c].pc = "idle"
    /\ callers' = [callers EXCEPT ![c] = [IdleCaller EXCEPT !.pc = "list",
                                                            !.op = "Queues"]]
    /\ UNCHANGED <<seqVars, http>>

\* a caller invokes QueueDetail: rejected, or on to the attribute fetch
ConcQueueDetail(c) ==
    /\ callers[c].pc = "idle"
    /\ \E url \in ConcURLs :
        callers' = [callers EXCEPT ![c] =
            IF QueueURLValidation(url) # NoError
            THEN [IdleCaller EXCEPT !.pc = "done", !.op = "QueueDetail", !.in = url,
                                    !.result.err = QueueURLValidation(url)]
            ELSE [IdleCaller EXCEPT !.pc = "attrs", !.op = "QueueDetail", !.in = url]]
    /\ UNCHANGED <<seqVars, http>>

\* the ListQueues call of a listing and what follows it up to the next call
ConcListPage(c) ==
    /\ callers[c].pc = "list"
    /\ \E answer \in ConcPageAnswers(callers[c]) :
        LET me == callers[c]
            log == Append(me.log,
                          ProviderCall("ListQueues", [NextToken |-> me.token], answer))
        IN  IF answer.err # NoError
            THEN callers' = [callers EXCEPT ![c] =
                    [me EXCEPT !.pc = "done", !.log = log,
                               !.result.err = Wrap(answer.err,
                                                   "failed to call ListQueues API")]]
            ELSE \E paged \in {[me EXCEPT !.log = log,
                                             !.urls = answer.QueueUrls,
                                             !.next = answer.NextToken]} :
                    \E after \in ListContinue(paged) :
                        callers' = [callers EXCEPT ![c] = after]
    /\ UNCHANGED <<seqVars, http>>

\* the GetQueueAttributes call for the next URL of the page and what follows
ConcListFetch(c) ==
    /\ callers[c].pc = "fetch"
    /\ \E answer \in ConcAttributeAnswers :
        LET me == callers[c]
            item == [kind |-> "url", url |-> Head(me.urls), answer |-> answer]
        IN  \E fetched \in
                    {[me EXCEPT !.log = Append(me.log, ListFetchCall(item)),
                                !.urls = Tail(me.urls),
                                !.queues = ListAppendQueue(QueuesOf(callers, c), item)]} :
                \E after \in ListContinue(fetched) :
                    callers' = [callers EXCEPT ![c] = after]
    /\ UNCHANGED <<seqVars, http>>

\* the GetQueueAttributes call of GetQueueDetail
ConcDetailAttributes(c) ==
    /\ callers[c].pc = "attrs"
    /\ \E answer \in ConcAttributeAnswers :
        LET me == callers[c]
            log == Append(me.log,
                          ProviderCall("GetQueueAttributes",
                                       [QueueUrl |-> me.in, AttributeNames |-> <<"All">>],
                                       answer))
        IN  callers' = [callers EXCEPT ![c] =
                IF answer.err # NoError
                THEN [me EXCEPT !.pc = "done", !.log = log,
                                !.result.err =
                                    Wrap(answer.err, "failed to call GetQueueAttributes API")]
                ELSE [me EXCEPT !.pc = "tags", !.log = log,
                                !.detail = DetailOf(me.in, answer.Attributes)]]
    /\ UNCHANGED <<seqVars, http>>

\* the ListQueueTags call of GetQueueDetail and the return
ConcDetailTags(c) ==
    /\ callers[c].pc = "tags"
    /\ \E answer \in ConcTagAnswers :
        LET me == callers[c]
            detail == [me.detail EXCEPT !.Tags = DetailTags(answer)]
        IN  callers' = [callers EXCEPT ![c] =
                [me EXCEPT !.pc = "done",
                           !.log = Append(me.log,
                                          ProviderCall("ListQueueTags",
                                                       [QueueUrl |-> me.in], answer)),
                           !.detail = detail,
                           !.result.detail = detail]]
    /\ UNCHANGED <<seqVars, http>>

\* the caller has consumed the result
ConcReturn(c) ==
    /\ callers[c].pc = "done"
    /\ callers' = [callers EXCEPT ![c] = IdleCaller]
    /\ UNCHANGED <<seqVars, http>>

NextConc ==
    \E c \in Callers :
        \/ ConcQueues(c)
        \/ ConcQueueDetail(c)
        \/ ConcListPage(c)
        \/ ConcListFetch(c)
        \/ ConcDetailAttributes(c)
        \/ ConcDetailTags(c)
        \/ ConcReturn(c)

SpecConc == Init /\ [][NextConc]_vars

\* the next provider call of the invocation of a caller
ConcStep(c) ==
    \/ ConcListPage(c)
    \/ ConcListFetch(c)
    \/ ConcDetailAttributes(c)
    \/ ConcDetailTags(c)

\* every invocation runs on its own goroutine and every provider call
\* returns: an invocation that has a next call to make makes it
SpecConcFair ==
    Init /\ [][NextConc]_vars /\ \A c \in Callers : WF_vars(ConcStep(c))

(***************************************************************************)
(* The HTTP handlers (internal/handler.go).  HandlerImpl holds the service *)
(* as the interface SqsService; here it is a double whose calls are        *)
(* recorded and whose answers are drawn from small sets.  A page response  *)
(* carries the fields of its view that identify the queue; a redirect      *)
(* carries its location as the literal parts and the escaped value.        *)
(***************************************************************************)
\* r.PathValue("url"): absent, badly escaped, blank once decoded, accepted
MissingPathValues == {<<>>}
BadlyEscapedPathValues == {<<"%">>, <<"%", "z", "z">>, <<"%", "2">>}
BlankPathValues == {<<"%", "2", "0">>, <<"+">>, <<"%", "0", "9">>}
AcceptedPathValues == {<<"u">>, <<"h", "%", "2", "F", "q">>, <<"+", "u", "+">>}
PathValues ==
    MissingPathValues \cup BadlyEscapedPathValues \cup BlankPathValues
        \cup AcceptedPathValues

\* the errors of the service double
ServiceErrors == {NoError, "boom"}

\* http.Error, writeJSONError, writeJSON with a message and http.Redirect
TextError(message, status) == [status |-> status, kind |-> "text", message |-> message]
writeJSONError(status, message) ==
    [status |-> status, kind |-> "json", message |-> message]
writeJSONMessage(message) == [status |-> 200, kind |-> "json", message |-> message]
Redirect(prefix, value, suffix) ==
    [status |-> 303, kind |-> "redirect", message |-> "",
     location |-> [prefix |-> prefix, value |-> value, suffix |-> suffix]]

\* a call of the service double
ServiceCall(method, in) == [method |-> method, input |-> in]

\* the handler has written its response
Handled(name, request, calls, response) ==
    /\ http' = [pc |-> "returned", handler |-> name, request |-> request,
                serviceCalls |-> calls, response |-> response]
    /\ UNCHANGED <<seqVars, callers>>

\* the answers of the service double to QueueDetail
QueueDetailAnswers(queueURL) ==
    {[err |-> "boom", detail |-> ZeroDetail],
     [err |-> NoError, detail |-> DetailOf(queueURL, EmptyMap)],
     [err |-> NoError,
      detail |-> DetailOf(queueURL, ("FifoQueue" :> <<"t", "r", "u", "e">>)
                                       @@ ("ApproximateNumberOfMessages" :> <<"3">>))]}

\* strings.ToUpper(string(queueDetail.Type))
TypeLabel(type) ==
    IF type = QueueTypeFIFO THEN "FIFO"
    ELSE IF type = QueueTypeStandard THEN "STANDARD"
    ELSE ""

\* the page of the template "queue"
QueuePage(queueURL, detail, purged) ==
    [status |-> 200, kind |-> "html", message |-> "queue",
     view |-> [Name |-> detail.QueueSummary.Name,
               URL |-> detail.QueueSummary.URL,
               EscapedURL |-> QueryEscape(queueURL),
               Type |-> TypeLabel(detail.QueueSummary.Type),
               MessagesAvailable |-> FormatInt(detail.QueueSummary.MessagesAvailable),
               MessagesInFlight |-> FormatInt(detail.QueueSummary.MessagesInFlight),
               Flash |-> purged]]

\* the page of the template "send-receive"
SendReceivePage(queueURL, detail) ==
    [status |-> 200, kind |-> "html", message |-> "send-receive",
     view |-> [Name |-> detail.QueueSummary.Name,
               URL |-> detail.QueueSummary.URL,
               EscapedURL |-> QueryEscape(queueURL),
               Type |-> TypeLabel(detail.QueueSummary.Type),
               SupportsMessageGroups |-> detail.QueueSummary.Type = QueueTypeFIFO,
               RequiresMessageDeduplication |->
                   /\ detail.QueueSummary.Type = QueueTypeFIFO
                   /\ ~detail.QueueSummary.ContentBasedDeduplication]]

\* the response to a request whose queue URL was refused
RefusedText(from) == TextError(from.err, StatusOrBadRequest(from.status))
RefusedJSON(from) == writeJSONError(StatusOrBadRequest(from.status), from.err)

QueueHandler ==
    /\ http.pc = "idle"
    /\ \E url \in PathValues, purged \in BOOLEAN :
        LET from == queueURLFromRequest(url)
        IN  \E answer \in QueueDetailAnswers(from.queueURL) :
                Handled("QueueHandler", [url |-> url, purged |-> purged],
                        IF from.err # NoError THEN <<>>
                        ELSE <<ServiceCall("QueueDetail", from.queueURL)>>,
                        IF from.err # NoError THEN RefusedText(from)
                        ELSE IF answer.err # NoError
                        THEN TextError("failed to load queue detail", 500)
                        ELSE QueuePage(from.queueURL, answer.detail, purged))

DeleteQueueHandler ==
    /\ http.pc = "idle"
    /\ \E url \in PathValues, err \in ServiceErrors :
        LET from == queueURLFromRequest(url)
        IN  Handled("DeleteQueueHandler", [url |-> url],
                    IF from.err # NoError THEN <<>>
                    ELSE <<ServiceCall("DeleteQueue", from.queueURL)>>,
                    IF from.err # NoError THEN RefusedText(from)
                    ELSE IF err # NoError THEN TextError("failed to delete queue", 500)
                    ELSE Redirect("/queues?deleted=",
                                  QueryEscape(extractQueueName(from.queueURL)), ""))

PurgeQueueHandler ==
    /\ http.pc = "idle"
    /\ \E url \in PathValues, err \in ServiceErrors :
        LET from == queueURLFromRequest(url)
        IN  Handled("PurgeQueueHandler", [url |-> url],
                    IF from.err # NoError THEN <<>>
                    ELSE <<ServiceCall("PurgeQueue", from.queueURL)>>,
                    IF from.err # NoError THEN RefusedText(from)
                    ELSE IF err # NoError THEN TextError("failed to purge queue", 500)
                    ELSE Redirect("/queues/", QueryEscape(from.queueURL), "?purged=1"))

SendReceive ==
    /\ http.pc = "idle"
    /\ \E url \in PathValues :
        LET from == queueURLFromRequest(url)
        IN  \E answer \in QueueDetailAnswers(from.queueURL) :
                Handled("SendReceive", [url |-> url],
                        IF from.err # NoError THEN <<>>
                        ELSE <<ServiceCall("QueueDetail", from.queueURL)>>,
                        IF from.err # NoError THEN RefusedText(from)
                        ELSE IF answer.err # NoError
                        THEN TextError("failed to load queue detail", 500)
                        ELSE SendReceivePage(from.queueURL, answer.detail))

\* what json.Decoder.Decode makes of the request body: io.EOF on an empty
\* body, another error on a malformed one, else the payload
EmptyBody == [decode |-> "EOF"]
MalformedBody == [decode |-> "invalid"]

SendMessagePayloads ==
    {[Body |-> <<" ", "h", "i", " ">>, MessageGroupID |-> <<>>, MessageDeduplicationID |-> <<>>,
      DelaySeconds |-> NilInt, Attributes |-> <<>>],
     [Body |-> <<"h", "i">>, MessageGroupID |-> <<"g">>, MessageDeduplicationID |-> <<"d">>,
      DelaySeconds |-> Int32Ptr(5),
      Attributes |-> <<[Name |-> <<" ", "a", " ">>, Value |-> <<"v">>], [Name |-> <<" ">>, Value |-> <<"v">>]>>]}

RECURSIVE convertPayloadAttributes(_)
\* convertPayloadAttributes: trimmed, entries with a blank name or value
\* dropped
convertPayloadAttributes(attrs) ==
    IF attrs = <<>> THEN <<>>
    ELSE (IF TrimSpace(Head(attrs).Name) = <<>> \/ TrimSpace(Head(attrs).Value) = <<>>
          THEN <<>>
          ELSE <<[Name |-> TrimSpace(Head(attrs).Name),
                  Value |-> TrimSpace(Head(attrs).Value)]>>)
         \o convertPayloadAttributes(Tail(attrs))

SendMessageAPI ==
    /\ http.pc = "idle"
    /\ \E url \in PathValues, err \in ServiceErrors,
          body \in {EmptyBody, MalformedBody}
                     \cup {[decode |-> "ok", payload |-> p] : p \in SendMessagePayloads} :
        LET from == queueURLFromRequest(url)
            called == from.err = NoError /\ body.decode = "ok"
        IN  Handled("SendMessageAPI", [url |-> url, body |-> body],
                    IF ~called THEN <<>>
                    ELSE <<ServiceCall("SendMessage",
                             [QueueURL |-> from.queueURL,
                              Body |-> body.payload.Body,
                              MessageGroupID |-> body.payload.MessageGroupID,
                              MessageDeduplicationID |->
                                  body.payload.MessageDeduplicationID,
                              DelaySeconds |-> body.payload.DelaySeconds,
                              Attributes |->
                                  convertPayloadAttributes(body.payload.Attributes)])>>,
                    IF from.err # NoError THEN RefusedJSON(from)
                    ELSE IF body.decode = "EOF"
                    THEN writeJSONError(400, "request body is required")
                    ELSE IF body.decode = "invalid"
                    THEN writeJSONError(400, "invalid request body")
                    ELSE IF err # NoError THEN writeJSONError(400, err)
                    ELSE writeJSONMessage("Message sent successfully."))

ReceiveMessagesPayloads ==
    {[MaxMessages |-> NilInt, WaitTimeSeconds |-> NilInt],
     [MaxMessages |-> Int32Ptr(5), WaitTimeSeconds |-> Int32Ptr(0)]}

\* the answers of the service double to ReceiveMessages
ReceiveMessagesServiceAnswers ==
    {[err |-> "boom", Messages |-> <<>>],
     [err |-> NoError, Messages |-> <<>>],
     [err |-> NoError,
      Messages |-> <<[ID |-> <<"m">>, Body |-> <<"h", "i">>, ReceiptHandle |-> <<"r">>,
                      ReceiveCount |-> 2,
                      Attributes |-> <<[Name |-> <<"a">>, Value |-> <<"v">>]>>]>>]}

ReceiveMessagesAPI ==
    /\ http.pc = "idle"
    /\ \E url \in PathValues, answer \in ReceiveMessagesServiceAnswers,
          body \in {EmptyBody, MalformedBody}
                     \cup {[decode |-> "ok", payload |-> p] :
                              p \in ReceiveMessagesPayloads} :
        LET from == queueURLFromRequest(url)
            called == from.err = NoError /\ body.decode # "invalid"
            payload == IF body.decode = "ok" THEN body.payload
                       ELSE [MaxMessages |-> NilInt, WaitTimeSeconds |-> NilInt]
        IN  Handled("ReceiveMessagesAPI", [url |-> url, body |-> body],
                    IF ~called THEN <<>>
                    ELSE <<ServiceCall("ReceiveMessages",
                             [QueueURL |-> from.queueURL,
                              MaxMessages |-> payload.MaxMessages.v,
                              MaxMessagesProvided |-> ~payload.MaxMessages.isNil,
                              WaitTimeSeconds |-> payload.WaitTimeSeconds.v,
                              WaitTimeProvided |-> ~payload.WaitTimeSeconds.isNil])>>,
                    IF from.err # NoError THEN RefusedJSON(from)
                    ELSE IF body.decode = "invalid"
                    THEN writeJSONError(400, "invalid request body")
                    ELSE IF answer.err # NoError THEN writeJSONError(400, answer.err)
                    ELSE [status |-> 200, kind |-> "json", message |-> "",
                          messages |-> answer.Messages])

DeleteMessagePayloads == {[ReceiptHandle |-> <<" ">>], [ReceiptHandle |-> <<" ", "r", " ">>]}

DeleteMessageAPI ==
    /\ http.pc = "idle"
    /\ \E url \in PathValues, err \in ServiceErrors,
          body \in {EmptyBody, MalformedBody}
                     \cup {[decode |-> "ok", payload |-> p] :
                              p \in DeleteMessagePayloads} :
        LET from == queueURLFromRequest(url)
            receiptHandle == IF body.decode = "ok"
                             THEN TrimSpace(body.payload.ReceiptHandle) ELSE <<>>
            called == from.err = NoError /\ body.decode = "ok" /\ receiptHandle # <<>>
        IN  Handled("DeleteMessageAPI", [url |-> url, body |-> body],
                    IF ~called THEN <<>>
                    ELSE <<ServiceCall("DeleteMessage",
                             [QueueURL |-> from.queueURL,
                              ReceiptHandle |-> receiptHandle])>>,
                    IF from.err # NoError THEN RefusedJSON(from)
                    ELSE IF body.decode = "EOF"
                    THEN writeJSONError(400, "request body is required")
                    ELSE IF body.decode = "invalid"
                    THEN writeJSONError(400, "invalid request body")
                    ELSE IF receiptHandle = <<>>
                    THEN writeJSONError(400, "receipt handle is required")
                    ELSE IF err # NoError THEN writeJSONError(400, err)
                    ELSE writeJSONMessage("Message deleted successfully."))

\* the values of the create-queue form as submitted
DelayFormValues == {<<>>, <<"5">>, <<" ", "9", "0", "1", " ">>, <<"a", "b", "c">>, <<"-", "1">>, <<"9", "0", "0">>}
RetentionFormValues == {<<>>, <<"5", "9">>, <<"6", "0">>, <<"1", "2", "0", "9", "6", "0", "1">>, <<"2", "1", "4", "7", "4", "8", "3", "6", "4", "8">>}
VisibilityFormValues == {<<>>, <<"4", "3", "2", "0", "0">>, <<"4", "3", "2", "0", "1">>, <<"+", "7">>}
CreateQueueFormValues ==
    [queue_name : {<<"q">>, <<" ", "q", " ">>}, queue_type : {QueueTypeStandard},
     delay_seconds : DelayFormValues,
     message_retention_period : RetentionFormValues,
     visibility_timeout : VisibilityFormValues,
     content_deduplication : {"", "on"}]

\* the answers of the service double to CreateQueue
CreateQueueServiceAnswers ==
    {[err |-> "boom", QueueURL |-> <<>>], [err |-> NoError, QueueURL |-> <<"h", "/", "q">>]}

DelayMessage == "Delay seconds must be between 0 and 900."
RetentionMessage == "Message retention period must be between 60 and 1209600."
VisibilityMessage == "Visibility timeout must be between 0 and 43200."

\* form := createQueueForm{...}
createQueueForm(values) ==
    [Name |-> TrimSpace(values.queue_name),
     Type |-> values.queue_type,
     DelaySeconds |-> TrimSpace(values.delay_seconds),
     MessageRetentionPeriod |-> TrimSpace(values.message_retention_period),
     VisibilityTimeout |-> TrimSpace(values.visibility_timeout),
     ContentBasedDedup |-> values.content_deduplication = "on"]

\* renderCreateQueue(w, h.createQueueErrorData(form, err))
createQueueErrorData(form, message) ==
    [status |-> 200, kind |-> "html", message |-> "create-queue",
     Form |-> form, ErrorMessage |-> message]

\* handleCreateQueuePost after r.ParseForm succeeded
handleCreateQueuePost(values, answer) ==
    LET form == createQueueForm(values)
        delay == parseOptionalInt32(form.DelaySeconds, 0, 900, DelayMessage)
        retention == parseOptionalInt32(form.MessageRetentionPeriod, 60, 1209600,
                                        RetentionMessage)
        visibility == parseOptionalInt32(form.VisibilityTimeout, 0, 43200,
                                         VisibilityMessage)
    IN  IF delay.err # NoError
        THEN [calls |-> <<>>, response |-> createQueueErrorData(form, delay.err)]
        ELSE IF retention.err # NoError
        THEN [calls |-> <<>>, response |-> createQueueErrorData(form, retention.err)]
        ELSE IF visibility.err # NoError
        THEN [calls |-> <<>>, response |-> createQueueErrorData(form, visibility.err)]
        ELSE [calls |-> <<ServiceCall("CreateQueue",
                            [Name |-> form.Name,
                             Type |-> form.Type,
                             ContentBasedDeduplication |-> form.ContentBasedDedup,
                             DelaySeconds |-> delay.value,
                             MessageRetentionPeriod |-> retention.value,
                             VisibilityTimeout |-> visibility.value])>>,
              response |->
                  IF answer.err # NoError THEN createQueueErrorData(form, answer.err)
                  ELSE Redirect("/queues?created=",
                                QueryEscape(extractQueueName(answer.QueueURL)), "")]

PostCreateQueueHandler ==
    /\ http.pc = "idle"
    /\ \/ Handled("PostCreateQueueHandler", [malformed |-> TRUE], <<>>,
                  TextError("invalid form", 400))
       \/ \E values \in CreateQueueFormValues, answer \in CreateQueueServiceAnswers :
            Handled("PostCreateQueueHandler", [malformed |-> FALSE, values |-> values],
                    handleCreateQueuePost(values, answer).calls,
                    handleCreateQueuePost(values, answer).response)

\* the response was sent; the next request can be handled
NextRequest ==
    /\ http.pc = "returned"
    /\ http' = IdleHTTP
    /\ UNCHANGED <<seqVars, callers>>

NextHTTP ==
    \/ QueueHandler
    \/ DeleteQueueHandler
    \/ PurgeQueueHandler
    \/ SendReceive
    \/ SendMessageAPI
    \/ ReceiveMessagesAPI
    \/ DeleteMessageAPI
    \/ PostCreateQueueHandler
    \/ NextRequest

SpecHTTP == Init /\ [][NextHTTP]_vars


(***************************************************************************)
(* Vocabulary of the properties.                                           *)
(***************************************************************************)
\* the messages of the errors the service itself raises
ValidationErrors ==
    {"queue name is required", "invalid queue type",
     "content-based deduplication is only available for FIFO queues",
     "queue url is required", "message body is required",
     "delay seconds must be between 0 and 900", "receipt handle is required"}

IsDigit(c) == \E i \in 1..10 : DigitChars[i] = c

DigitValue(c) == (CHOOSE i \in 1..10 : DigitChars[i] = c) - 1

RECURSIVE DecimalValue(_)
\* the number a non-empty string of digits denotes
DecimalValue(s) ==
    IF Len(s) = 1 THEN DigitValue(s[1])
    ELSE 10 * DecimalValue(SubSeq(s, 1, Len(s) - 1)) + DigitValue(s[Len(s)])

\* s is the decimal string of the integer v: an optional sign, digits, no
\* leading zero
IsDecimalOf(s, v) ==
    LET digits == IF s # <<>> /\ Head(s) = "-" THEN Tail(s) ELSE s
    IN  /\ digits # <<>>
        /\ \A i \in 1..Len(digits) : IsDigit(digits[i])
        /\ Len(digits) > 1 => digits[1] # "0"
        /\ (Head(s) = "-") <=> (v < 0)
        /\ DecimalValue(digits) = (IF v < 0 THEN 0 - v ELSE v)

True == <<"t", "r", "u", "e">>

\* the invocation that has just returned
Ran(name) == pc = "returned" /\ op = name

\* the repository received exactly one call, of the given method
OneCall(method) == Len(repoCalls) = 1 /\ repoCalls[1].method = method

\* the input of the single call the repository received
Sent == repoCalls[1].input

\* the trimmed input name ends in .fifo
NameHasFifoSuffix == HasSuffix(TrimSpace(input.Name), DotFifo)

(***************************************************************************)
(* C1: whenever an operation of the service returns a validation error,    *)
(* the repository received no call during that invocation.                 *)
(***************************************************************************)
C1_ValidationBeforeAdapter ==
    (pc = "returned" /\ result.err \in ValidationErrors) => repoCalls = <<>>

C1_Witness ==
    /\ Ran("DeleteMessage")
    /\ TrimSpace(input.QueueURL) # <<>>
    /\ result.err = "receipt handle is required"
    /\ repoCalls = <<>>

(***************************************************************************)
(* C2 as stated: CreateQueue with type Standard and content-based          *)
(* deduplication always fails with a validation error and no call,         *)
(* whatever the name.                                                      *)
(***************************************************************************)
C2_Original ==
    (/\ Ran("CreateQueue")
     /\ input.Type = QueueTypeStandard
     /\ input.ContentBasedDeduplication)
    => (result.err \in ValidationErrors /\ repoCalls = <<>>)

(***************************************************************************)
(* C2 amended: CreateQueue with type Standard and content-based            *)
(* deduplication fails with a validation error and no call whenever the    *)
(* trimmed name does not end in .fifo.                                     *)
(***************************************************************************)
C2_StandardDedupRejected ==
    (/\ Ran("CreateQueue")
     /\ input.Type = QueueTypeStandard
     /\ input.ContentBasedDeduplication
     /\ ~NameHasFifoSuffix)
    => (result.err \in ValidationErrors /\ repoCalls = <<>>)

C2_Witness ==
    /\ Ran("CreateQueue")
    /\ input.Type = QueueTypeStandard
    /\ input.ContentBasedDeduplication
    /\ ~NameHasFifoSuffix
    /\ result.err = "content-based deduplication is only available for FIFO queues"
    /\ repoCalls = <<>>

(***************************************************************************)
(* C3 as stated: for a non-blank name and type FIFO the repository gets a  *)
(* name that ends in .fifo and never in .fifo.fifo.                        *)
(***************************************************************************)
C3_Original ==
    (/\ Ran("CreateQueue")
     /\ input.Type = QueueTypeFIFO
     /\ TrimSpace(input.Name) # <<>>)
    => (/\ OneCall("CreateQueue")
        /\ HasSuffix(Sent.Name, DotFifo)
        /\ ~HasSuffix(Sent.Name, DotFifo \o DotFifo))

(***************************************************************************)
(* C3 amended: for a non-blank name and type FIFO the repository gets a    *)
(* name that ends in .fifo, and the service appends the suffix at most     *)
(* once and only when the trimmed name lacks it: the name ends in          *)
(* .fifo.fifo only if the trimmed input did.                               *)
(***************************************************************************)
C3_FifoSuffixOnce ==
    (/\ Ran("CreateQueue")
     /\ input.Type = QueueTypeFIFO
     /\ TrimSpace(input.Name) # <<>>)
    => (/\ OneCall("CreateQueue")
        /\ HasSuffix(Sent.Name, DotFifo)
        /\ Sent.Name \in {TrimSpace(input.Name), TrimSpace(input.Name) \o DotFifo}
        /\ NameHasFifoSuffix => Sent.Name = TrimSpace(input.Name)
        /\ HasSuffix(Sent.Name, DotFifo \o DotFifo)
              => HasSuffix(TrimSpace(input.Name), DotFifo \o DotFifo))

C3_Witness ==
    /\ Ran("CreateQueue")
    /\ input.Type = QueueTypeFIFO
    /\ NameHasFifoSuffix
    /\ ~HasSuffix(TrimSpace(input.Name), DotFifo \o DotFifo)
    /\ OneCall("CreateQueue")
    /\ Sent.Name = TrimSpace(input.Name)

(***************************************************************************)
(* C4: for a name ending in .fifo, CreateQueue with type Standard or with  *)
(* no type is treated as FIFO: no validation error, one repository call    *)
(* with the (trimmed) name as given, FifoQueue = "true", and the           *)
(* ContentBasedDeduplication attribute exactly when it was requested.      *)
(***************************************************************************)
C4_StandardReclassified ==
    (/\ Ran("CreateQueue")
     /\ input.Type \in {"", QueueTypeStandard}
     /\ NameHasFifoSuffix)
    => (/\ result.err \notin ValidationErrors
        /\ OneCall("CreateQueue")
        /\ Sent.Name = TrimSpace(input.Name)
        /\ "FifoQueue" \in DOMAIN Sent.Attributes
        /\ Sent.Attributes["FifoQueue"] = True
        /\ ("ContentBasedDeduplication" \in DOMAIN Sent.Attributes)
              <=> input.ContentBasedDeduplication)

C4_Witness ==
    /\ Ran("CreateQueue")
    /\ input.Type = QueueTypeStandard
    /\ NameHasFifoSuffix
    /\ input.ContentBasedDeduplication
    /\ OneCall("CreateQueue")
    /\ "ContentBasedDeduplication" \in DOMAIN Sent.Attributes

(***************************************************************************)
(* C5: in every CreateQueue call the repository receives, the name ends    *)
(* in .fifo if and only if the attributes contain FifoQueue = "true".      *)
(***************************************************************************)
C5_SuffixIffFifoAttribute ==
    \A i \in 1..Len(repoCalls) :
        repoCalls[i].method = "CreateQueue" =>
            (HasSuffix(repoCalls[i].input.Name, DotFifo)
             <=> (/\ "FifoQueue" \in DOMAIN repoCalls[i].input.Attributes
                  /\ repoCalls[i].input.Attributes["FifoQueue"] = True))

C5_Witness ==
    /\ Ran("CreateQueue")
    /\ input.Type = QueueTypeFIFO
    /\ ~NameHasFifoSuffix
    /\ OneCall("CreateQueue")
    /\ HasSuffix(Sent.Name, DotFifo)
    /\ "FifoQueue" \in DOMAIN Sent.Attributes


\* the queue type CreateQueue resolves for an accepted input
ResolvedFifo == input.Type = QueueTypeFIFO \/ NameHasFifoSuffix

\* the keys the attribute map of CreateQueue is expected to hold
ExpectedCreateQueueKeys ==
    {k \in {"DelaySeconds"} : ~input.DelaySeconds.isNil}
    \cup {k \in {"MessageRetentionPeriod"} : ~input.MessageRetentionPeriod.isNil}
    \cup {k \in {"VisibilityTimeout"} : ~input.VisibilityTimeout.isNil}
    \cup {k \in {"FifoQueue"} : ResolvedFifo}
    \cup {k \in {"ContentBasedDeduplication"} :
             ResolvedFifo /\ input.ContentBasedDeduplication}

(***************************************************************************)
(* C6: the attribute map CreateQueue passes on holds DelaySeconds,         *)
(* MessageRetentionPeriod and VisibilityTimeout exactly when the input     *)
(* provides them, each as the decimal string of its value;                 *)
(* ContentBasedDeduplication = "true" exactly when the resolved type is    *)
(* FIFO and deduplication was requested; no other key but FifoQueue.  For  *)
(* type Standard and a name without .fifo the name is the trimmed input    *)
(* and no FIFO attribute is set.                                           *)
(***************************************************************************)
C6_CreateQueueAttributes ==
    (Ran("CreateQueue") /\ repoCalls # <<>>)
    => (/\ OneCall("CreateQueue")
        /\ DOMAIN Sent.Attributes = ExpectedCreateQueueKeys
        /\ ~input.DelaySeconds.isNil
              => IsDecimalOf(Sent.Attributes["DelaySeconds"], input.DelaySeconds.v)
        /\ ~input.MessageRetentionPeriod.isNil
              => IsDecimalOf(Sent.Attributes["MessageRetentionPeriod"],
                             input.MessageRetentionPeriod.v)
        /\ ~input.VisibilityTimeout.isNil
              => IsDecimalOf(Sent.Attributes["VisibilityTimeout"],
                             input.VisibilityTimeout.v)
        /\ "ContentBasedDeduplication" \in DOMAIN Sent.Attributes
              => Sent.Attributes["ContentBasedDeduplication"] = True
        /\ (input.Type = QueueTypeStandard /\ ~NameHasFifoSuffix)
              => (/\ Sent.Name = TrimSpace(input.Name)
                  /\ "FifoQueue" \notin DOMAIN Sent.Attributes
                  /\ "ContentBasedDeduplication" \notin DOMAIN Sent.Attributes))

C6_Witness ==
    /\ Ran("CreateQueue")
    /\ OneCall("CreateQueue")
    /\ input.Type = QueueTypeStandard
    /\ input.Name # TrimSpace(input.Name)
    /\ ~input.DelaySeconds.isNil
    /\ input.MessageRetentionPeriod.isNil
    /\ DOMAIN Sent.Attributes = {"DelaySeconds", "VisibilityTimeout"}

\* delaySeconds is provided and lies outside [0,900]
DelayOutOfRange ==
    /\ ~input.DelaySeconds.isNil
    /\ (input.DelaySeconds.v < 0 \/ input.DelaySeconds.v > 900)

C8_SendMessageDelay ==
    (/\ Ran("SendMessage")
     /\ TrimSpace(input.QueueURL) # <<>>
     /\ TrimSpace(input.Body) # <<>>)
    => IF DelayOutOfRange
       THEN /\ result.err = "delay seconds must be between 0 and 900"
            /\ repoCalls = <<>>
       ELSE /\ OneCall("SendMessage")
            /\ result.err \notin ValidationErrors
            /\ Sent.DelaySeconds.isNil <=> input.DelaySeconds.isNil
            /\ ~input.DelaySeconds.isNil
                  => Sent.DelaySeconds.v = input.DelaySeconds.v

C8_Witness ==
    /\ Ran("SendMessage")
    /\ ~input.DelaySeconds.isNil
    /\ input.DelaySeconds.v = 900
    /\ OneCall("SendMessage")
    /\ ~Sent.DelaySeconds.isNil
    /\ Sent.DelaySeconds.v = 900

(***************************************************************************)
(* C9: ReceiveMessages with a non-blank queue URL is never rejected for    *)
(* its maxMessages; the repository gets 10 when maxMessagesProvided is     *)
(* false, whatever the field holds, and otherwise the input clamped into   *)
(* [1,10].                                                                 *)
(***************************************************************************)
C9_MaxMessagesClamped ==
    (Ran("ReceiveMessages") /\ TrimSpace(input.QueueURL) # <<>>)
    => (/\ OneCall("ReceiveMessages")
        /\ result.err \notin ValidationErrors
        /\ ~input.MaxMessagesProvided => Sent.MaxMessages = 10
        /\ input.MaxMessagesProvided
              => (/\ Sent.MaxMessages \in 1..10
                  /\ input.MaxMessages \in 1..10
                        => Sent.MaxMessages = input.MaxMessages
                  /\ input.MaxMessages < 1 => Sent.MaxMessages = 1
                  /\ input.MaxMessages > 10 => Sent.MaxMessages = 10))

C9_Witness ==
    /\ Ran("ReceiveMessages")
    /\ input.MaxMessagesProvided
    /\ input.MaxMessages = 25
    /\ OneCall("ReceiveMessages")
    /\ Sent.MaxMessages = 10

(***************************************************************************)
(* C10: ReceiveMessages with a non-blank queue URL sends waitTimeSeconds   *)
(* 20 when waitTimeProvided is false and otherwise the input clamped into  *)
(* [0,20]; a provided wait time of 0 is sent as 0.                         *)
(***************************************************************************)
C10_WaitTimeClamped ==
    (Ran("ReceiveMessages") /\ TrimSpace(input.QueueURL) # <<>>)
    => (/\ OneCall("ReceiveMessages")
        /\ ~input.WaitTimeProvided => Sent.WaitTimeSeconds = 20
        /\ input.WaitTimeProvided
              => (/\ Sent.WaitTimeSeconds \in 0..20
                  /\ input.WaitTimeSeconds \in 0..20
                        => Sent.WaitTimeSeconds = input.WaitTimeSeconds
                  /\ input.WaitTimeSeconds < 0 => Sent.WaitTimeSeconds = 0
                  /\ input.WaitTimeSeconds > 20 => Sent.WaitTimeSeconds = 20))

C10_Witness ==
    /\ Ran("ReceiveMessages")
    /\ input.WaitTimeProvided
    /\ input.WaitTimeSeconds = 0
    /\ OneCall("ReceiveMessages")
    /\ Sent.WaitTimeSeconds = 0

\* the single call the provider double received, and its request
OneProviderCall(api) == Len(providerCalls) = 1 /\ providerCalls[1].api = api
Request == providerCalls[1].input

(***************************************************************************)
(* C11 as stated: when SendMessage passes validation, the provider request *)
(* carries the caller's messageDeduplicationId trimmed when it is not      *)
(* blank and none when it is blank.                                        *)
(***************************************************************************)
C11_DeduplicationIdForwarded ==
    (Ran("SendMessage") /\ providerCalls # <<>>)
    => (/\ OneProviderCall("SendMessage")
        /\ IF TrimSpace(input.MessageDeduplicationID) = <<>>
           THEN Request.MessageDeduplicationId.isNil
           ELSE /\ ~Request.MessageDeduplicationId.isNil
                /\ Request.MessageDeduplicationId.v
                      = TrimSpace(input.MessageDeduplicationID))

\* the names of the attribute list of the input, trimmed, the blank ones left out
TrimmedAttributeNames ==
    {TrimSpace(input.Attributes[i].Name) : i \in 1..Len(input.Attributes)} \ {<<>>}

\* the position of the last entry of the attribute list with that trimmed name
LastEntry(name) ==
    CHOOSE i \in 1..Len(input.Attributes) :
        /\ TrimSpace(input.Attributes[i].Name) = name
        /\ \A j \in (i + 1)..Len(input.Attributes) :
              TrimSpace(input.Attributes[j].Name) # name

(***************************************************************************)
(* C12: the attribute mapping SendMessage hands to the repository has      *)
(* exactly the distinct non-blank trimmed names of the attribute list as   *)
(* keys, and each key carries the value of the last entry of the list      *)
(* whose trimmed name it is.                                               *)
(***************************************************************************)
C12_AttributesFlattened ==
    (Ran("SendMessage") /\ repoCalls # <<>>)
    => (/\ OneCall("SendMessage")
        /\ DOMAIN Sent.Attributes = TrimmedAttributeNames
        /\ \A name \in TrimmedAttributeNames :
              Sent.Attributes[name] = input.Attributes[LastEntry(name)].Value)

C12_Witness ==
    /\ Ran("SendMessage")
    /\ OneCall("SendMessage")
    /\ Len(input.Attributes) = 2
    /\ input.Attributes[1].Name # input.Attributes[2].Name
    /\ TrimSpace(input.Attributes[1].Name) = TrimSpace(input.Attributes[2].Name)
    /\ input.Attributes[1].Value # input.Attributes[2].Value
    /\ DOMAIN Sent.Attributes = {TrimSpace(input.Attributes[2].Name)}
    /\ Sent.Attributes[TrimSpace(input.Attributes[2].Name)] = input.Attributes[2].Value

\* the ListQueues calls and the GetQueueAttributes calls of the invocation
ListCalls == SelectSeq(providerCalls, LAMBDA c : c.api = "ListQueues")
FetchCalls == SelectSeq(providerCalls, LAMBDA c : c.api = "GetQueueAttributes")

RECURSIVE Flatten(_)
Flatten(seqs) == IF seqs = <<>> THEN <<>> ELSE Head(seqs) \o Flatten(Tail(seqs))

\* the queue URLs the provider listed during the invocation, page after page
ListedQueueUrls ==
    Flatten([i \in 1..Len(ListCalls) |-> ListCalls[i].output.QueueUrls])

\* how many summaries of the result carry the URL u
Summaries(u) ==
    Cardinality({i \in 1..Len(result.queues) : result.queues[i].URL = u})

\* how many attribute fetches for the URL u succeeded
Fetched(u) ==
    Cardinality({i \in 1..Len(FetchCalls) :
                    FetchCalls[i].input.QueueUrl = u /\ FetchCalls[i].err = NoError})

(***************************************************************************)
(* C13: when every ListQueues call of a listing succeeds, the listing      *)
(* returns no error whatever attribute fetches fail; every listed URL is   *)
(* fetched, in the order listed, every page that carries a token is        *)
(* followed by the next page, and the result holds one summary per         *)
(* successful fetch of a URL and none for a failed one.                    *)
(***************************************************************************)
C13_FetchFailuresSkipped ==
    (/\ Ran("Queues")
     /\ \A i \in 1..Len(ListCalls) : ListCalls[i].err = NoError)
    => (/\ result.err = NoError
        /\ [i \in 1..Len(FetchCalls) |-> FetchCalls[i].input.QueueUrl] = ListedQueueUrls
        /\ \A i \in 1..Len(ListCalls) :
              ListCalls[i].output.NextToken.isNil <=> i = Len(ListCalls)
        /\ \A i \in 1..Len(result.queues) : result.queues[i].URL \in ListedURLs
        /\ \A u \in ListedURLs : Summaries(u) = Fetched(u))

C13_Witness ==
    /\ Ran("Queues")
    /\ Len(providerCalls) = 4
    /\ providerCalls[2].api = "GetQueueAttributes"
    /\ providerCalls[2].err = "boom"
    /\ providerCalls[3].api = "ListQueues"
    /\ providerCalls[3].err = NoError
    /\ providerCalls[4].api = "GetQueueAttributes"
    /\ providerCalls[4].err = NoError
    /\ result.err = NoError
    /\ Len(result.queues) = 1
    /\ result.queues[1].URL = providerCalls[4].input.QueueUrl

(***************************************************************************)
(* C14: the sequence a listing returns is sorted by name ascending: of     *)
(* two adjacent summaries the later name is never less than the earlier,   *)
(* whatever the order in which the provider delivered pages and URLs.      *)
(***************************************************************************)
C14_SortedByName ==
    (Ran("Queues") /\ result.err = NoError)
    => \A i \in 1..(Len(result.queues) - 1) :
          ~StringLess(result.queues[i + 1].Name, result.queues[i].Name)

C14_Witness ==
    /\ Ran("Queues")
    /\ Len(ListCalls) = 2
    /\ Len(FetchCalls) = 2
    /\ FetchCalls[1].input.QueueUrl = <<"h", "/", "b">>
    /\ FetchCalls[2].input.QueueUrl = <<"h", "/", "a">> \o DotFifo
    /\ Len(result.queues) = 2
    /\ result.queues[1].Name = <<"a">> \o DotFifo
    /\ result.queues[2].Name = <<"b">>

(***************************************************************************)
(* C15: when the attribute fetch of GetQueueDetail succeeds and the tag    *)
(* listing fails, the operation returns no error and a detail whose        *)
(* summary, ARN and attributes come from the fetched attributes and whose  *)
(* tags are empty.                                                         *)
(***************************************************************************)
C15_TagFailureTolerated ==
    (/\ Ran("QueueDetail")
     /\ Len(providerCalls) = 2
     /\ providerCalls[1].api = "GetQueueAttributes"
     /\ providerCalls[1].err = NoError
     /\ providerCalls[2].api = "ListQueueTags"
     /\ providerCalls[2].err # NoError)
    => (/\ result.err = NoError
        /\ result.detail.Attributes = providerCalls[1].output.Attributes
        /\ result.detail.QueueSummary
              = buildQueueSummary(input.QueueURL, providerCalls[1].output.Attributes)
        /\ result.detail.Arn = Lookup(providerCalls[1].output.Attributes, "QueueArn")
        /\ result.detail.Tags = EmptyMap)

C15_Witness ==
    /\ Ran("QueueDetail")
    /\ Len(providerCalls) = 2
    /\ providerCalls[1].err = NoError
    /\ "QueueArn" \in DOMAIN providerCalls[1].output.Attributes
    /\ providerCalls[2].api = "ListQueueTags"
    /\ providerCalls[2].err = "boom"
    /\ result.err = NoError
    /\ result.detail.Arn = <<"a">>
    /\ result.detail.QueueSummary.MessagesAvailable = 3
    /\ result.detail.Tags = EmptyMap

(***************************************************************************)
(* C16 as stated: an operation during which the context was cancelled      *)
(* (the provider answered one of its calls with the cancellation error)    *)
(* returns an error that is not a validation error, never a success.       *)
(***************************************************************************)
C16_CancellationReturnsError ==
    (/\ pc = "returned"
     /\ \E i \in 1..Len(providerCalls) : providerCalls[i].err = ContextCanceled)
    => (result.err # NoError /\ result.err \notin ValidationErrors)

\* the provider failures the repository tolerates: an attribute fetch of a
\* listing and the tag listing of a detail
Tolerated(call) ==
    \/ op = "Queues" /\ call.api = "GetQueueAttributes"
    \/ call.api = "ListQueueTags"

(***************************************************************************)
(* C17: when a provider call fails, other than the two tolerated ones,     *)
(* the operation of the service returns the error of that call wrapped     *)
(* with the message "failed to call <API> API", <API> naming the call,     *)
(* and nothing else around it.                                             *)
(***************************************************************************)
C17_ProviderErrorWrapped ==
    pc = "returned"
    => \A i \in 1..Len(providerCalls) :
          (providerCalls[i].err # NoError /\ ~Tolerated(providerCalls[i]))
          => result.err = "failed to call " \o providerCalls[i].api \o " API: "
                             \o providerCalls[i].err

C17_Witness ==
    /\ Ran("ReceiveMessages")
    /\ Len(providerCalls) = 1
    /\ providerCalls[1].api = "ReceiveMessage"
    /\ providerCalls[1].err = "boom"
    /\ result.err = "failed to call ReceiveMessage API: boom"

\* the operations that make a single provider call, and the API each calls
SingleCallOps ==
    {"CreateQueue", "DeleteQueue", "PurgeQueue", "SendMessage", "ReceiveMessages",
     "DeleteMessage"}
ProviderAPI(name) == IF name = "ReceiveMessages" THEN "ReceiveMessage" ELSE name

(***************************************************************************)
(* C18: an invocation of CreateQueue, DeleteQueue, PurgeQueue,             *)
(* SendMessage, ReceiveMessages or DeleteMessage that passes validation    *)
(* makes exactly one provider call, failed or not.  QueueDetail fetches    *)
(* the attributes once and lists the tags at most once, only after a       *)
(* successful fetch.  A listing makes one attribute fetch per listed URL   *)
(* and one ListQueues call per token received, and a failed ListQueues     *)
(* call is its last call.                                                  *)
(***************************************************************************)
C18_NoRetry ==
    (pc = "returned" /\ result.err \notin ValidationErrors)
    => (/\ op \in SingleCallOps => OneProviderCall(ProviderAPI(op))
        /\ op = "QueueDetail"
              => (/\ Len(providerCalls) \in {1, 2}
                  /\ providerCalls[1].api = "GetQueueAttributes"
                  /\ Len(providerCalls) = 2
                        <=> providerCalls[1].err = NoError
                  /\ Len(providerCalls) = 2 => providerCalls[2].api = "ListQueueTags")
        /\ op = "Queues"
              => (/\ [i \in 1..Len(FetchCalls) |-> FetchCalls[i].input.QueueUrl]
                        = ListedQueueUrls
                  /\ Len(providerCalls) = Len(ListCalls) + Len(FetchCalls)
                  /\ Len(ListCalls)
                        = 1 + Cardinality({i \in 1..Len(ListCalls) :
                                              ~ListCalls[i].output.NextToken.isNil})
                  /\ \A i \in 1..Len(providerCalls) :
                        (providerCalls[i].api = "ListQueues"
                         /\ providerCalls[i].err # NoError)
                        => i = Len(providerCalls)))

C18_Witness ==
    /\ Ran("DeleteQueue")
    /\ Len(providerCalls) = 1
    /\ providerCalls[1].api = "DeleteQueue"
    /\ providerCalls[1].err = "boom"
    /\ result.err # NoError

\* the messages the provider delivered
Delivered == providerCalls[1].output.Messages

\* the custom attribute carries a value of some kind
HasValue(value) ==
    \/ ~value.StringValue.isNil
    \/ Len(value.StringListValues) > 0
    \/ Len(value.BinaryValue) > 0
    \/ Len(value.BinaryListValues) > 0

\* the attribute list of one returned message against the delivered message
CustomThenSystem(attrs, msg) ==
    LET custom == {k \in DOMAIN msg.MessageAttributes : HasValue(msg.MessageAttributes[k])}
        system == DOMAIN msg.Attributes
        n == Cardinality(custom)
    IN  /\ Len(attrs) = n + Cardinality(system)
        /\ {attrs[j].Name : j \in 1..n} = custom
        /\ {attrs[j].Name : j \in (n + 1)..Len(attrs)} = system
        /\ \A j \in 1..(Len(attrs) - 1) :
              j # n => StringLess(attrs[j].Name, attrs[j + 1].Name)

(***************************************************************************)
(* C20: the attribute list of every message ReceiveMessages returns is     *)
(* the custom attributes of the delivered message (those that carry a      *)
(* value) in ascending order of name, followed by all its system           *)
(* attributes in ascending order of name.                                  *)
(***************************************************************************)
C20_CustomThenSystem ==
    (Ran("ReceiveMessages") /\ providerCalls # <<>> /\ result.err = NoError)
    => (/\ Len(result.Messages) = Len(Delivered)
        /\ \A i \in 1..Len(Delivered) :
              CustomThenSystem(result.Messages[i].Attributes, Delivered[i]))

C20_Witness ==
    /\ Ran("ReceiveMessages")
    /\ result.err = NoError
    /\ Len(result.Messages) = 1
    /\ Len(result.Messages[1].Attributes) = 6
    /\ result.Messages[1].Attributes[1].Name = <<"T">>
    /\ result.Messages[1].Attributes[2].Name = <<"a">>
    /\ result.Messages[1].Attributes[3].Name = <<"b">>
    /\ result.Messages[1].Attributes[4].Name = ApproximateReceiveCount
    /\ result.Messages[1].Attributes[6].Name = SentTimestamp

\* the listing the provider delivered to an invocation, read off its answers
ScriptOf(log) ==
    [items |-> [i \in 1..(Len(log) - 1) |->
                   IF log[i + 1].api = "ListQueues" THEN PageBreak
                   ELSE [kind |-> "url", url |-> log[i + 1].input.QueueUrl,
                         answer |-> log[i + 1].output]],
     last |-> IF log[Len(log)].api = "ListQueues" /\ log[Len(log)].err # NoError
              THEN log[Len(log)].err ELSE "end"]

\* the answers the provider gave to a QueueDetail invocation
DetailScriptOf(log) ==
    [attributes |-> log[1].output,
     tags |-> IF Len(log) > 1 THEN log[2].output ELSE [err |-> NoError, Tags |-> EmptyMap]]

\* the invocation of a caller made the calls, and returned the result, that
\* the operation makes and returns when it runs alone on the caller's input
\* against a provider that gives the same answers
AsAlone(me) ==
    IF me.op = "Queues"
    THEN \E alone \in RepositoryListQueues(ScriptOf(me.log)) :
            /\ alone.calls = me.log
            /\ QueuesRun(alone.reply).result
                  = [err |-> me.result.err, queues |-> me.result.queues]
    ELSE IF QueueURLValidation(me.in) # NoError
    THEN me.log = <<>> /\ me.result.err = QueueURLValidation(me.in)
    ELSE LET alone == RepositoryGetQueueDetail([QueueURL |-> me.in],
                                               DetailScriptOf(me.log))
         IN  /\ alone.calls = me.log
             /\ QueueDetailRun(me.in, alone.reply @@ [zero |-> ZeroDetail]).result
                   = [err |-> me.result.err, detail |-> me.result.detail]

(***************************************************************************)
(* C19: under every interleaving of the provider calls of two concurrent   *)
(* callers, the result of each invocation is the one the operation         *)
(* returns when run alone on the invocation's own input against the        *)
(* provider answers to the invocation's own calls.                         *)
(***************************************************************************)
C19_NoInterference ==
    \A c \in Callers : callers[c].pc = "done" => AsAlone(callers[c])

C19_Witness ==
    /\ callers[1].pc = "done"
    /\ callers[1].op = "Queues"
    /\ Len(callers[1].result.queues) = 2
    /\ callers[2].pc = "fetch"
    /\ callers[2].op = "Queues"
    /\ Len(callers[2].queues) = 1
    /\ Len(callers[2].log) = 2
    /\ callers[2].queues # SubSeq(callers[1].result.queues, 1, 1)

(***************************************************************************)
(* C21 as stated: ReceiveMessages never fails for a malformed receive      *)
(* counter, and the ReceiveCount of every returned message is at least 0:  *)
(* the parsed ApproximateReceiveCount, 0 when it is missing or not a       *)
(* number.                                                                 *)
(***************************************************************************)
C21_ReceiveCountNonNegative ==
    (Ran("ReceiveMessages") /\ providerCalls # <<>> /\ providerCalls[1].err = NoError)
    => (/\ result.err = NoError
        /\ Len(result.Messages) = Len(Delivered)
        /\ \A i \in 1..Len(Delivered) :
              /\ result.Messages[i].ReceiveCount >= 0
              /\ (\/ ApproximateReceiveCount \notin DOMAIN Delivered[i].Attributes
                  \/ ~ParseInt(Delivered[i].Attributes[ApproximateReceiveCount]).ok)
                 => result.Messages[i].ReceiveCount = 0)

(***************************************************************************)
(* C22 as stated: the summary of every queue a listing or a detail         *)
(* returns has MessagesAvailable and MessagesInFlight of at least 0, and   *)
(* a missing or malformed count never fails the operation.                 *)
(***************************************************************************)
C22_CountsNonNegative ==
    /\ (Ran("QueueDetail") /\ providerCalls # <<>> /\ providerCalls[1].err = NoError)
       => (/\ result.err = NoError
           /\ result.detail.QueueSummary.MessagesAvailable >= 0
           /\ result.detail.QueueSummary.MessagesInFlight >= 0)
    /\ (Ran("Queues") /\ result.err = NoError)
       => \A i \in 1..Len(result.queues) :
             /\ result.queues[i].MessagesAvailable >= 0
             /\ result.queues[i].MessagesInFlight >= 0

(***************************************************************************)
(* C26: when a ListQueues call of a listing fails, on the first page or a  *)
(* later one, the listing returns an error and no summary, whatever was    *)
(* built from earlier pages, and the failed call is its last provider      *)
(* call.                                                                   *)
(***************************************************************************)
C26_PageFailureAborts ==
    \A i \in 1..Len(providerCalls) :
        (/\ Ran("Queues")
         /\ providerCalls[i].api = "ListQueues"
         /\ providerCalls[i].err # NoError)
        => (/\ result.err # NoError
            /\ result.queues = <<>>
            /\ i = Len(providerCalls))

C26_Witness ==
    /\ Ran("Queues")
    /\ Len(providerCalls) = 3
    /\ providerCalls[2].api = "GetQueueAttributes"
    /\ providerCalls[2].err = NoError
    /\ providerCalls[3].api = "ListQueues"
    /\ providerCalls[3].err = "boom"
    /\ result.err = "failed to call ListQueues API: boom"
    /\ result.queues = <<>>

\* name is what follows the last "/" of url, the whole of url when it has none
IsLastSegment(name, url) ==
    /\ \A i \in 1..Len(name) : name[i] # "/"
    /\ Len(name) <= Len(url)
    /\ SubSeq(url, Len(url) - Len(name) + 1, Len(url)) = name
    /\ Len(name) < Len(url) => url[Len(url) - Len(name)] = "/"

\* the type of a summary against the attributes it was built from
TypeInferred(summary, attributes) ==
    /\ IsLastSegment(summary.Name, summary.URL)
    /\ summary.Type \in {QueueTypeFIFO, QueueTypeStandard}
    /\ summary.Type = QueueTypeFIFO
          <=> \/ ("FifoQueue" \in DOMAIN attributes /\ attributes["FifoQueue"] = True)
              \/ HasSuffix(summary.Name, DotFifo)

(***************************************************************************)
(* C28: the type of a queue summary is FIFO if and only if the FifoQueue   *)
(* attribute the provider returned is "true" or the name, the last path    *)
(* segment of the URL, ends in .fifo, and Standard otherwise; a FifoQueue  *)
(* attribute of "false" does not override the suffix.                      *)
(***************************************************************************)
C28_FifoInferred ==
    /\ (Ran("QueueDetail") /\ providerCalls # <<>> /\ providerCalls[1].err = NoError)
       => (/\ result.detail.QueueSummary.URL = input.QueueURL
           /\ TypeInferred(result.detail.QueueSummary, providerCalls[1].output.Attributes))
    /\ (Ran("Queues") /\ result.err = NoError)
       => \A i \in 1..Len(result.queues) :
             \E j \in 1..Len(FetchCalls) :
                /\ FetchCalls[j].err = NoError
                /\ FetchCalls[j].input.QueueUrl = result.queues[i].URL
                /\ TypeInferred(result.queues[i], FetchCalls[j].output.Attributes)

C28_Witness ==
    /\ Ran("QueueDetail")
    /\ HasSuffix(input.QueueURL, DotFifo)
    /\ providerCalls # <<>>
    /\ providerCalls[1].err = NoError
    /\ "FifoQueue" \in DOMAIN providerCalls[1].output.Attributes
    /\ providerCalls[1].output.Attributes["FifoQueue"] = <<"f", "a", "l", "s", "e">>
    /\ result.detail.QueueSummary.Name = <<"q">> \o DotFifo
    /\ result.detail.QueueSummary.Type = QueueTypeFIFO

(***************************************************************************)
(* C29 as stated: every ReceiveMessage request asks for all custom         *)
(* attribute names and for exactly the system attribute names              *)
(* ApproximateReceiveCount, SentTimestamp,                                 *)
(* ApproximateFirstReceiveTimestamp, MessageGroupId,                       *)
(* MessageDeduplicationId and SequenceNumber.                              *)
(***************************************************************************)
C29_SystemAttributeNames ==
    \A i \in 1..Len(providerCalls) :
        providerCalls[i].api = "ReceiveMessage"
        => (/\ providerCalls[i].input.MessageAttributeNames = <<"All">>
            /\ {providerCalls[i].input.MessageSystemAttributeNames[k] :
                   k \in 1..Len(providerCalls[i].input.MessageSystemAttributeNames)}
                  = {"ApproximateReceiveCount", "SentTimestamp",
                     "ApproximateFirstReceiveTimestamp", "MessageGroupId",
                     "MessageDeduplicationId", "SequenceNumber"})

(***************************************************************************)
(* C30: SendMessage, ReceiveMessages and DeleteMessage pass the trimmed    *)
(* queue URL to the repository, DeleteMessage also the trimmed receipt     *)
(* handle; QueueDetail, DeleteQueue and PurgeQueue pass the queue URL as   *)
(* the caller gave it, and SendMessage the body as the caller gave it.     *)
(* The provider receives the same strings.                                 *)
(***************************************************************************)
C30_QueueURLForwarding ==
    (pc = "returned" /\ repoCalls # <<>> /\ op # "Queues" /\ op # "CreateQueue")
    => (/\ Len(repoCalls) = 1
        /\ providerCalls # <<>>
        /\ providerCalls[1].input.QueueUrl = Sent.QueueURL
        /\ op \in {"SendMessage", "ReceiveMessages", "DeleteMessage"}
              => Sent.QueueURL = TrimSpace(input.QueueURL)
        /\ op \in {"QueueDetail", "DeleteQueue", "PurgeQueue"}
              => Sent.QueueURL = input.QueueURL
        /\ op = "DeleteMessage"
              => (/\ Sent.ReceiptHandle = TrimSpace(input.ReceiptHandle)
                  /\ providerCalls[1].input.ReceiptHandle = Sent.ReceiptHandle)
        /\ op = "SendMessage"
              => (/\ Sent.Body = input.Body
                  /\ providerCalls[1].input.MessageBody = input.Body))

C30_Witness ==
    /\ Ran("PurgeQueue")
    /\ input.QueueURL = <<" ", "u", " ">>
    /\ OneCall("PurgeQueue")
    /\ Sent.QueueURL = <<" ", "u", " ">>
    /\ providerCalls[1].input.QueueUrl = <<" ", "u", " ">>

\* the listings that deliver the items of a listing in another order: URLs
\* moved within a page or to another page
Reordered(script) ==
    {other \in {[items |-> [i \in 1..Len(script.items) |-> script.items[p[i]]],
                 last |-> script.last] : p \in Permutations(1..Len(script.items))} :
        ListScriptOK(other)}

(***************************************************************************)
(* C27 as stated: the sequence ListQueues returns is determined by the set *)
(* of queues the provider delivered: a listing that delivers the same      *)
(* queues in another order of pages or of URLs within a page returns the   *)
(* same sequence, also when two queues have the same name.                 *)
(***************************************************************************)
C27_OrderIndependent ==
    (Ran("Queues") /\ result.err = NoError)
    => \A other \in Reordered(ScriptOf(providerCalls)) :
          \A listing \in RepositoryListQueues(other) :
             listing.reply.err = NoError => listing.reply.queues = result.queues

\* the positions of the ListQueues calls in the calls of an invocation
ListPositions(log) == {i \in 1..Len(log) : log[i].api = "ListQueues"}

\* the ListQueues call before the one at position j
PreviousList(log, j) ==
    CHOOSE i \in ListPositions(log) :
        i < j /\ \A k \in ListPositions(log) : k < j => k <= i

\* the URLs of the pages an invocation received, in order
PagedURLs(log) ==
    Flatten([i \in 1..Len(log) |->
                IF log[i].api = "ListQueues" THEN log[i].output.QueueUrls ELSE <<>>])

\* the URLs an invocation fetched attributes of, in order
FetchedURLs(log) ==
    Flatten([i \in 1..Len(log) |->
                IF log[i].api = "GetQueueAttributes"
                THEN <<log[i].input.QueueUrl>> ELSE <<>>])

\* the pagination protocol on the calls a listing has made so far
PaginationProtocol(me) ==
    /\ me.log # <<>>
          => (1 \in ListPositions(me.log) /\ me.log[1].input.NextToken.isNil)
    /\ \A j \in ListPositions(me.log) :
          j > 1 => LET before == me.log[PreviousList(me.log, j)]
                   IN  /\ before.err = NoError
                       /\ ~before.output.NextToken.isNil
                       /\ me.log[j].input.NextToken = before.output.NextToken
    /\ (me.pc = "done" /\ me.result.err = NoError)
          => (/\ \E last \in ListPositions(me.log) :
                    /\ \A k \in ListPositions(me.log) : k <= last
                    /\ me.log[last].output.NextToken.isNil
              /\ FetchedURLs(me.log) = PagedURLs(me.log)
              /\ \A i \in 1..Len(me.log) :
                    (me.log[i].api = "GetQueueAttributes" /\ me.log[i].err = NoError)
                    => \E k \in 1..Len(me.result.queues) :
                          me.result.queues[k].URL = me.log[i].input.QueueUrl)

(***************************************************************************)
(* C25: the first ListQueues call of a listing carries no token; each      *)
(* later ListQueues call follows a page that carried a token and carries   *)
(* exactly that token; a listing that returns has stopped at a page        *)
(* without token, has fetched every URL of every page and returns a        *)
(* summary for each URL whose fetch succeeded; and a listing whose         *)
(* provider comes to a page without token returns.                         *)
(***************************************************************************)
C25_Pagination ==
    /\ [](\A c \in Callers : callers[c].op = "Queues" => PaginationProtocol(callers[c]))
    /\ \A c \in Callers :
          (callers[c].op = "Queues" /\ callers[c].pc \in {"list", "fetch"})
             ~> (callers[c].pc = "done")

C25_Witness ==
    /\ callers[1].op = "Queues"
    /\ callers[1].pc = "done"
    /\ callers[1].result.err = NoError
    /\ Cardinality(ListPositions(callers[1].log)) = 2
    /\ callers[1].log[1].output.NextToken = PageToken(1)
    /\ callers[1].log[4].api = "ListQueues"
    /\ callers[1].log[4].input.NextToken = PageToken(1)
    /\ callers[1].log[4].output.NextToken.isNil
    /\ Len(callers[1].result.queues) = 3

\* the handlers that take the queue URL from the path
PathHandlers ==
    {"QueueHandler", "DeleteQueueHandler", "PurgeQueueHandler", "SendReceive",
     "SendMessageAPI", "ReceiveMessagesAPI", "DeleteMessageAPI"}

\* a handler answered 400 with the message and left the service alone
Refused(message) ==
    /\ http.response.status = 400
    /\ http.response.message = message
    /\ http.serviceCalls = <<>>

(***************************************************************************)
(* C23: a handler that takes the queue URL from the path answers 400       *)
(* "queue url is required" when the path value is missing or decodes to a  *)
(* blank string, 400 "invalid queue url" when it is not validly            *)
(* percent-encoded, and in each case does not invoke the service.          *)
(***************************************************************************)
C23_BadQueueURLRefused ==
    (http.pc = "returned" /\ http.handler \in PathHandlers)
    => (/\ http.request.url \in MissingPathValues \cup BlankPathValues
              => Refused("queue url is required")
        /\ http.request.url \in BadlyEscapedPathValues
              => Refused("invalid queue url"))

C23_Witness ==
    /\ http.pc = "returned"
    /\ http.handler = "DeleteMessageAPI"
    /\ http.request.url = <<"%", "2", "0">>
    /\ http.request.body.decode = "ok"
    /\ http.request.body.payload.ReceiptHandle = <<" ", "r", " ">>
    /\ Refused("queue url is required")

\* the number a submitted form value denotes; a value outside the domain
\* denotes none (abc) or lies beyond 32 bits (2147483648)
NumberOf ==
    (<<"5">> :> 5) @@ (<<" ", "9", "0", "1", " ">> :> 901) @@ (<<"-", "1">> :> 0 - 1) @@ (<<"9", "0", "0">> :> 900)
        @@ (<<"5", "9">> :> 59) @@ (<<"6", "0">> :> 60) @@ (<<"1", "2", "0", "9", "6", "0", "1">> :> 1209601)
        @@ (<<"4", "3", "2", "0", "0">> :> 43200) @@ (<<"4", "3", "2", "0", "1">> :> 43201) @@ (<<"+", "7">> :> 7)

\* a submitted value that is not empty and is non-numeric or outside min..max
BadField(value, min, max) ==
    /\ value # <<>>
    /\ (value \notin DOMAIN NumberOf \/ NumberOf[value] \notin min..max)

\* what the service receives for a submitted value that is empty or good
Provided(value) == IF value = <<>> THEN NilInt ELSE Int32Ptr(NumberOf[value])

\* the message of the first refused field
RangeMessage(values) ==
    IF BadField(values.delay_seconds, 0, 900) THEN DelayMessage
    ELSE IF BadField(values.message_retention_period, 60, 1209600)
    THEN RetentionMessage
    ELSE VisibilityMessage

\* the create-queue form was submitted and could be parsed
FormSubmitted ==
    /\ http.pc = "returned"
    /\ http.handler = "PostCreateQueueHandler"
    /\ ~http.request.malformed

\* one of the three numbers of the submitted form is refused
FormRefused ==
    \/ BadField(http.request.values.delay_seconds, 0, 900)
    \/ BadField(http.request.values.message_retention_period, 60, 1209600)
    \/ BadField(http.request.values.visibility_timeout, 0, 43200)

\* the form is rendered again with the range message, the service not called
RenderedAgain ==
    /\ http.serviceCalls = <<>>
    /\ http.response.status = 200
    /\ http.response.message = "create-queue"
    /\ http.response.ErrorMessage = RangeMessage(http.request.values)

\* the service is called once, empty fields passed as not provided
PassedOn ==
    /\ Len(http.serviceCalls) = 1
    /\ http.serviceCalls[1].method = "CreateQueue"
    /\ http.serviceCalls[1].input.DelaySeconds
          = Provided(http.request.values.delay_seconds)
    /\ http.serviceCalls[1].input.MessageRetentionPeriod
          = Provided(http.request.values.message_retention_period)
    /\ http.serviceCalls[1].input.VisibilityTimeout
          = Provided(http.request.values.visibility_timeout)

====
